---- MODULE Spec2Model ----
(***************************************************************************)
(* The character guessing game of app/models/guessing_game.py and its      *)
(* routes (app/routes/guessing.py), followed by the recommendation engine  *)
(* of app/models/recommendations.py (second part of the module).           *)
(*                                                                         *)
(* The server keeps no game state: every request builds a fresh            *)
(* CharacterGuessingGame over the characters table, and the caller holds   *)
(* session_id, question_number and candidate_ids between calls.  The model *)
(* has the characters table (roster), each caller's held state (game) and  *)
(* the last request and response of each caller (req, resp).               *)
(*                                                                         *)
(* Conventions:                                                            *)
(*   - Python None is the string "NULL"; no answer is ever "NULL".         *)
(*   - popularity_score (a Float column, 0-100) is held in tenths of a     *)
(*     point, so 945 is 94.5; the range buckets are scaled alike.          *)
(*   - a Python dict result is a record plus the set `keys` of the keys    *)
(*     the dict really has; a field outside `keys` holds a filler.         *)
(*   - a query without ORDER BY returns rows in table order; ORDER BY      *)
(*     breaks ties in the engine's order, fixed per database (tieBreak).   *)
(***************************************************************************)
EXTENDS Integers, Sequences, FiniteSets, TLC

VARIABLES roster, tieBreak, game, req, resp, catalog, books, recReq, recResp

vars ==
    <<roster, tieBreak, game, req, resp, catalog, books, recReq, recResp>>

\* The movies table, the books table and the last call to the recommendation
\* engine with its result: the guessing game touches none of them.
recVars == <<catalog, books, recReq, recResp>>

(***************************************************************************)
(* Bounds                                                                  *)
(***************************************************************************)
\* Largest characters table explored.
MaxRoster == 6

\* Largest characters table explored with two callers.
MaxRosterTwo == 4

NULL == "NULL"

Range(s) == {s[i] : i \in DOMAIN s}

(***************************************************************************)
(* The characters table.  SeedCharacters is a tagged seed table in the     *)
(* shape seed_characters.py writes; a roster is any non-empty part of it   *)
(* (rows keep their ids and their table order).                            *)
(***************************************************************************)
Char(id, name, type, gender, alignment, traits, genres, pop) ==
    [id |-> id, name |-> name, type |-> type, alignment |-> alignment,
     traits |-> traits, genres |-> genres, popularity_score |-> pop,
     source |-> "src", image_url |-> NULL,
     additional_info |-> [gender |-> gender]]

SeedCharacters ==
    << Char(1, "c1", "anime", "male",   "hero",    <<"funny", "determined">>, <<"action", "comedy">>, 980),
       Char(2, "c2", "actor", "male",   NULL,      <<"funny">>,               <<"action">>,           920),
       Char(3, "c3", "anime", "male",   "hero",    <<"funny">>,               <<"action">>,           920),
       Char(4, "c4", "anime", "female", "villain", <<"serious">>,             <<"drama", "action">>,  870),
       Char(5, "c5", "anime", "male",   "hero",    <<"funny", "serious">>,    <<"action">>,           945),
       Char(6, "c6", "actor", "female", NULL,      <<"serious">>,             <<"drama">>,            600),
       Char(7, "c7", "anime", "male",   "hero",    <<"funny">>,               <<"action">>,           980) >>

\* The rows of table t whose id is in S, in table order.
RowsOf(t, S) == SelectSeq(t, LAMBDA c : c.id \in S)

SeedIds == {SeedCharacters[i].id : i \in DOMAIN SeedCharacters}

Rosters ==
    {RowsOf(SeedCharacters, S) :
        S \in {T \in SUBSET SeedIds : T # {} /\ Cardinality(T) <= MaxRoster}}

RosterIds == {roster[i].id : i \in DOMAIN roster}

\* An id no row of the table has.
UnknownId == CHOOSE n \in 0..100 : n \notin SeedIds

(***************************************************************************)
(* The question tree (CharacterGuessingGame._build_question_tree).         *)
(* `options` lists the option labels (for the range question, the keys of  *)
(* its dict); `ranges` is the range question's dict, label -> <<min,max>>. *)
(* `has_condition` says whether the dict has the key 'condition', and      *)
(* `condition` lists its field/value pairs.                                *)
(***************************************************************************)
NoRanges == [l \in {} |-> <<0, 0>>]

Question(id, text, field, type, options, ranges, has_condition, condition) ==
    [id |-> id, question |-> text, field |-> field, type |-> type,
     options |-> options, ranges |-> ranges,
     has_condition |-> has_condition, condition |-> condition]

PopularityRanges ==
    [l \in {"Extremely famous (everyone knows them)", "Very famous",
            "Well-known", "Moderately known"} |->
        CASE l = "Extremely famous (everyone knows them)" -> <<95 * 10, 100 * 10>>
          [] l = "Very famous"                            -> <<90 * 10, 94 * 10>>
          [] l = "Well-known"                             -> <<85 * 10, 89 * 10>>
          [] l = "Moderately known"                       -> <<0, 84 * 10>>]

build_question_tree ==
    << Question(1, "Is this character from anime or a real actor?",
                "type", "exact", <<"anime", "actor">>, NoRanges, FALSE, <<>>),
       Question(2, "What gender is this character?",
                "additional_info.gender", "nested", <<"male", "female">>,
                NoRanges, FALSE, <<>>),
       Question(3, "Is this character a hero, villain, or anti-hero?",
                "alignment", "exact", <<"hero", "villain", "anti-hero">>,
                NoRanges, TRUE, << <<"type", "anime">> >>),
       Question(4, "Which trait best describes this character?",
                "traits", "contains",
                <<"funny", "serious", "determined", "intelligent",
                  "mysterious", "strong", "charismatic">>,
                NoRanges, FALSE, <<>>),
       Question(5, "What genre is their main work?",
                "genres", "contains",
                <<"action", "comedy", "drama", "thriller",
                  "sci-fi", "adventure", "mystery">>,
                NoRanges, FALSE, <<>>),
       Question(6, "How popular/famous is this character?",
                "popularity_score", "range",
                <<"Extremely famous (everyone knows them)", "Very famous",
                  "Well-known", "Moderately known">>,
                PopularityRanges, FALSE, <<>>) >>

question_tree == build_question_tree

\* len(self.question_tree)
TreeLen == Len(question_tree)

\* Python list indexing, i 0-based: a negative i counts from the end, and an
\* index outside -len..len-1 raises IndexError.
IndexError(s, i) == i >= Len(s) \/ i < 0 - Len(s)

PyIndex(s, i) == IF i >= 0 THEN s[i + 1] ELSE s[Len(s) + i + 1]

(***************************************************************************)
(* Queries on the characters table.                                        *)
(***************************************************************************)
\* Mutant: an id the table does not hold selects every row.
QueryIn_lenient(ids) ==
    IF Range(ids) \subseteq {r.id : r \in Range(roster)}
    THEN SelectSeq(roster, LAMBDA c : c.id \in Range(ids))
    ELSE roster

\* db.query(Character).filter(Character.id.in_(ids)).all()
QueryIn(ids) == SelectSeq(roster, LAMBDA c : c.id \in Range(ids))

\* db.query(Character).filter(Character.id == id).first(); <<>> stands for None
QueryFirst(id) == SelectSeq(roster, LAMBDA c : c.id = id)

\* db.query(Character).all()
QueryAll == roster

\* Position of the row with this id in the table.
TablePos(id) == CHOOSE i \in DOMAIN roster : roster[i].id = id

\* Mutant: ascending order.
Before_asc(a, b) ==
    \/ a.popularity_score < b.popularity_score
    \/ /\ a.popularity_score = b.popularity_score
       /\ TablePos(a.id) < TablePos(b.id)

\* a comes before b under ORDER BY popularity_score DESC; rows of equal score
\* come in the engine's order.
Before(a, b) ==
    \/ a.popularity_score > b.popularity_score
    \/ /\ a.popularity_score = b.popularity_score
       /\ IF tieBreak = "asc" THEN TablePos(a.id) < TablePos(b.id)
                              ELSE TablePos(a.id) > TablePos(b.id)

RECURSIVE OrderByPopularityDesc(_)
OrderByPopularityDesc(rows) ==
    IF rows = <<>> THEN <<>>
    ELSE LET k == CHOOSE i \in DOMAIN rows :
                      \A j \in DOMAIN rows : j = i \/ Before(rows[i], rows[j])
             rest == [j \in 1..(Len(rows) - 1) |->
                         IF j < k THEN rows[j] ELSE rows[j + 1]]
         IN  <<rows[k]>> \o OrderByPopularityDesc(rest)

\* Mutant: the limit stops one row short.
Limit_short(rows, n) ==
    IF Len(rows) < n THEN rows ELSE SubSeq(rows, 1, n - 1)

\* .limit(n)
Limit(rows, n) == IF Len(rows) <= n THEN rows ELSE SubSeq(rows, 1, n)

(***************************************************************************)
(* CharacterGuessingGame._calculate_confidence                             *)
(***************************************************************************)
\* Mutant: the steps for 2 and 3 candidates are swapped.
calculate_confidence_swapped(num_candidates) ==
    IF num_candidates = 1 THEN 95
    ELSE IF num_candidates = 2 THEN 65
    ELSE IF num_candidates = 3 THEN 80
    ELSE IF num_candidates <= 5 THEN 50
    ELSE 35

calculate_confidence(num_candidates) ==
    IF num_candidates = 1 THEN 95
    ELSE IF num_candidates = 2 THEN 80
    ELSE IF num_candidates = 3 THEN 65
    ELSE IF num_candidates <= 5 THEN 50
    ELSE 35

(***************************************************************************)
(* CharacterGuessingGame._filter_candidates                                *)
(***************************************************************************)
\* Mutant: a list field matches only by its first element.
Match_first(char, question, answer) ==
    LET field == question.field
        q_type == question.type
    IN  CASE q_type = "exact" -> char[field] = answer
          [] q_type = "nested" ->
                /\ field = "additional_info.gender"
                /\ char.additional_info.gender = answer
          [] q_type = "contains" ->
                /\ char[field] # <<>>
                /\ char[field][1] = answer
          [] q_type = "range" ->
                /\ answer \in DOMAIN question.ranges
                /\ question.ranges[answer][1] <= char[field]
                /\ char[field] <= question.ranges[answer][2]
          [] OTHER -> FALSE

\* The body of the loop: does this row match the answer under the question?
Match(char, question, answer) ==
    LET field == question.field
        q_type == question.type
    IN  CASE q_type = "exact" -> char[field] = answer
          [] q_type = "nested" ->
                /\ field = "additional_info.gender"
                /\ char.additional_info.gender = answer
          [] q_type = "contains" ->
                answer \in Range(char[field])
          [] q_type = "range" ->
                /\ answer \in DOMAIN question.ranges
                /\ question.ranges[answer][1] <= char[field]
                /\ char[field] <= question.ranges[answer][2]
          [] OTHER -> FALSE

IdsOf(rows) == [i \in DOMAIN rows |-> rows[i].id]

\* Mutant: the fallback of line 231 is missing.
filter_candidates_noguard(candidate_ids, question, answer) ==
    IdsOf(SelectSeq(QueryIn(candidate_ids),
                    LAMBDA c : Match(c, question, answer)))

filter_candidates(candidate_ids, question, answer) ==
    LET candidates == QueryIn(candidate_ids)
        filtered == IdsOf(SelectSeq(candidates,
                                    LAMBDA c : Match(c, question, answer)))
    IN  IF filtered # <<>> THEN filtered ELSE candidate_ids

(***************************************************************************)
(* CharacterGuessingGame._check_condition                                  *)
(***************************************************************************)
\* Mutant: a condition always holds.
check_condition_always(condition, candidate_ids) == TRUE

check_condition(condition, candidate_ids) ==
    IF candidate_ids = <<>> THEN FALSE
    ELSE LET sample == QueryFirst(candidate_ids[1])
         IN  IF sample = <<>> THEN FALSE
             ELSE \A k \in DOMAIN condition :
                      sample[1][condition[k][1]] = condition[k][2]

(***************************************************************************)
(* CharacterGuessingGame._make_guess                                       *)
(***************************************************************************)
NoKeys == {}
GuessKeys == {"status", "guesses", "total_questions"}
ContinueKeys == {"status", "question", "options", "question_number",
                 "remaining_candidates", "candidate_ids"}

StartKeys == {"session_id", "question", "options", "question_number",
              "total_candidates"}

\* A result dict: `keys` are the keys it has.
Result(keys, status, question, options, question_number, remaining_candidates, candidate_ids, guesses, total_questions) ==
    [keys |-> keys, status |-> status, question |-> question,
     options |-> options, question_number |-> question_number,
     remaining_candidates |-> remaining_candidates,
     candidate_ids |-> candidate_ids, guesses |-> guesses,
     total_questions |-> total_questions]

\* Mutant: the confidence counts the guesses returned.
make_guess_by_returned(candidate_ids, questions_asked) ==
    LET candidates == Limit(OrderByPopularityDesc(QueryIn(candidate_ids)), 3)
        guesses == [i \in DOMAIN candidates |->
                       [id |-> candidates[i].id,
                        name |-> candidates[i].name,
                        type |-> candidates[i].type,
                        source |-> candidates[i].source,
                        confidence |-> calculate_confidence(Len(candidates)),
                        image_url |-> candidates[i].image_url]]
    IN  Result(GuessKeys, "guess", NULL, <<>>, 0, 0, <<>>, guesses,
               questions_asked)

\* Mutant: the guess result also carries the state of a continuation.
make_guess_with_state(candidate_ids, questions_asked) ==
    LET candidates == Limit(OrderByPopularityDesc(QueryIn(candidate_ids)), 3)
        guesses == [i \in DOMAIN candidates |->
                       [id |-> candidates[i].id,
                        name |-> candidates[i].name,
                        type |-> candidates[i].type,
                        source |-> candidates[i].source,
                        confidence |-> calculate_confidence(Len(candidate_ids)),
                        image_url |-> candidates[i].image_url]]
    IN  Result(GuessKeys \cup {"question_number", "candidate_ids"}, "guess",
               NULL, <<>>, questions_asked, 0, candidate_ids, guesses,
               questions_asked)

make_guess(candidate_ids, questions_asked) ==
    LET candidates == Limit(OrderByPopularityDesc(QueryIn(candidate_ids)), 3)
        guesses == [i \in DOMAIN candidates |->
                       [id |-> candidates[i].id,
                        name |-> candidates[i].name,
                        type |-> candidates[i].type,
                        source |-> candidates[i].source,
                        confidence |-> calculate_confidence(Len(candidate_ids)),
                        image_url |-> candidates[i].image_url]]
    IN  Result(GuessKeys, "guess", NULL, <<>>, 0, 0, <<>>, guesses,
               questions_asked)

(***************************************************************************)
(* CharacterGuessingGame.answer_question                                   *)
(***************************************************************************)
\* The while loop of lines 154-164: the first index from idx on whose
\* question has no condition or a condition that holds; len(tree) if none.
\* Mutant: the scan starts at the question just answered.
NextQuestionIdx_same(idx, new_candidates) == idx - 1

RECURSIVE NextQuestionIdx(_, _)
NextQuestionIdx(idx, new_candidates) ==
    IF idx < TreeLen
    THEN LET next_q == PyIndex(question_tree, idx)
         IN  IF next_q.has_condition
                /\ ~check_condition(next_q.condition, new_candidates)
             THEN NextQuestionIdx(idx + 1, new_candidates)
             ELSE idx
    ELSE idx

\* The HTTP 500 the route makes of an exception.
ErrorResult == Result(NoKeys, "error", NULL, <<>>, 0, 0, <<>>, <<>>, 0)

\* Mutant: guess only below 3 candidates.
ShouldGuess_below3(new_candidates, question_number) ==
    Len(new_candidates) < 3 \/ question_number >= 6

\* Mutant: the question number is an attribute all games share.
ShouldGuess_shared(new_candidates, question_number) ==
    \/ Len(new_candidates) <= 3
    \/ question_number >= 6
    \/ \E c \in DOMAIN game : game[c].question_number >= 6

\* The test of line 146: guess now?
ShouldGuess(new_candidates, question_number) ==
    Len(new_candidates) <= 3 \/ question_number >= 6

\* Mutant: a session_id no start_game issued is turned away.
answer_question_known_session(session_id, question_number, answer, candidate_ids) ==
    IF session_id = "forged" \/ IndexError(question_tree, question_number - 1)
    THEN ErrorResult
    ELSE
    LET question == PyIndex(question_tree, question_number - 1)
        new_candidates == filter_candidates(candidate_ids, question, answer)
    IN  IF ShouldGuess(new_candidates, question_number)
        THEN make_guess(new_candidates, question_number)
        ELSE LET next_question_idx ==
                     NextQuestionIdx(question_number, new_candidates)
             IN  IF next_question_idx >= TreeLen
                 THEN make_guess(new_candidates, question_number)
                 ELSE LET next_q == PyIndex(question_tree, next_question_idx)
                      IN  Result(ContinueKeys, "continue", next_q.question,
                                 next_q.options, next_question_idx + 1,
                                 Len(new_candidates), new_candidates,
                                 <<>>, 0)

answer_question(session_id, question_number, answer, candidate_ids) ==
    IF IndexError(question_tree, question_number - 1) THEN ErrorResult
    ELSE
    LET question == PyIndex(question_tree, question_number - 1)
        new_candidates == filter_candidates(candidate_ids, question, answer)
    IN  IF ShouldGuess(new_candidates, question_number)
        THEN make_guess(new_candidates, question_number)
        ELSE LET next_question_idx ==
                     NextQuestionIdx(question_number, new_candidates)
             IN  IF next_question_idx >= TreeLen
                 THEN make_guess(new_candidates, question_number)
                 ELSE LET next_q == PyIndex(question_tree, next_question_idx)
                      IN  Result(ContinueKeys, "continue", next_q.question,
                                 next_q.options, next_question_idx + 1,
                                 Len(new_candidates), new_candidates,
                                 <<>>, 0)

(***************************************************************************)
(* CharacterGuessingGame.start_game and the route list_characters          *)
(***************************************************************************)
\* The dict start_game returns; its session_id and total_candidates are kept
\* apart from the fields of an answer's result.
start_game(session_id) ==
    LET all_characters == QueryAll
        candidate_ids == IdsOf(all_characters)
        first_question == PyIndex(question_tree, 0)
    IN  [result |-> Result(StartKeys, "started", first_question.question,
                           first_question.options, 1, 0, <<>>, <<>>, 0),
         session_id |-> session_id,
         total_candidates |-> Len(candidate_ids)]

\* GET /api/game/characters: all rows, most popular first.
list_characters == OrderByPopularityDesc(QueryAll)

(***************************************************************************)
(* Callers.  A caller holds the state of its game between calls.           *)
(***************************************************************************)
Callers == {"a", "b"}

\* uuid4 values; a new one differs from every one in use.
Tokens == {"u1", "u2", "u3"}

TokenOrder == {<<"u1", "u2">>, <<"u1", "u3">>, <<"u2", "u3">>}

\* The session_id of a caller that never started a game.
ForgedToken == "forged"

\* The answers tried: options of the questions, and "other", an answer that
\* is no option of any question and no attribute of any character.
Answers ==
    {"anime", "actor", "male", "female", "hero", "villain", "funny",
     "serious", "action", "drama",
     "Extremely famous (everyone knows them)", "Very famous", "Well-known",
     "Moderately known", "other"}

\* The question numbers a caller may send (the schema takes any int): 1..6,
\* the nearest ones outside, and the negative ones at both ends of what
\* Python's indexing admits.
QuestionNumbers == {0 - TreeLen, -1} \cup (0..(TreeLen + 1))

\* The candidate lists a caller that follows no game may send: any part of
\* the table's ids in table order, alone or followed by an unknown id.
SuppliedLists ==
    LET parts == {IdsOf(RowsOf(roster, S)) : S \in SUBSET RosterIds}
    IN  parts \cup {p \o <<UnknownId>> : p \in parts}

\* The answers tried for a question number: the options of the question it
\* indexes and "other" (an option of another question matches no character
\* either, as "other" does).
AnswersFor(question_number) ==
    IF IndexError(question_tree, question_number - 1) THEN {"other"}
    ELSE (Answers \cap Range(PyIndex(question_tree, question_number - 1).options))
         \cup {"other"}

RowOf(id) == roster[TablePos(id)]

\* The matching rule of each question, as the specification words it.
Matches(id, question_number, answer) ==
    LET char == RowOf(id)
    IN  CASE question_number = 1 -> char.type = answer
          [] question_number = 2 -> char.additional_info.gender = answer
          [] question_number = 3 -> char.alignment = answer
          [] question_number = 4 -> \E i \in DOMAIN char.traits : char.traits[i] = answer
          [] question_number = 5 -> \E i \in DOMAIN char.genres : char.genres[i] = answer
          [] question_number = 6 ->
                \/ answer = "Extremely famous (everyone knows them)"
                   /\ 950 <= char.popularity_score /\ char.popularity_score <= 1000
                \/ answer = "Very famous"
                   /\ 900 <= char.popularity_score /\ char.popularity_score <= 940
                \/ answer = "Well-known"
                   /\ 850 <= char.popularity_score /\ char.popularity_score <= 890
                \/ answer = "Moderately known"
                   /\ 0 <= char.popularity_score /\ char.popularity_score <= 840

\* What a caller holds of its game.  `asked` counts its answer_question
\* calls, and `targets` are the characters it may have in mind: those every
\* answer it gave so far matches under the question answered.
IdleGame ==
    [status |-> "idle", session_id |-> NULL, question_number |-> 0,
     candidate_ids |-> <<>>, asked |-> 0, targets |-> {}]

\* The characters among `targets` that the answer to this question matches.
StillTargets(targets, question_number, answer) ==
    {id \in targets : Matches(id, question_number, answer)}

NoRequest ==
    [op |-> "none", session_id |-> NULL, question_number |-> 0,
     answer |-> NULL, candidate_ids |-> <<>>]

NoResult == Result(NoKeys, "none", NULL, <<>>, 0, 0, <<>>, <<>>, 0)

Request(op, session_id, question_number, answer, candidate_ids) ==
    [op |-> op, session_id |-> session_id,
     question_number |-> question_number, answer |-> answer,
     candidate_ids |-> candidate_ids]

TokensInUse == {game[c].session_id : c \in Callers}

\* The uuid4 drawn for a new game: one not in use.  Tokens are only ever
\* compared, so which unused one is drawn makes no difference; the first is
\* taken.
FreshTokens ==
    LET free == Tokens \ TokensInUse
    IN  {CHOOSE t \in free : \A u \in free : t = u \/ <<t, u>> \in TokenOrder}

Init ==
    /\ roster \in Rosters
    /\ tieBreak \in {"asc", "desc"}
    /\ game = [c \in Callers |-> IdleGame]
    /\ req = [c \in Callers |-> NoRequest]
    /\ resp = [c \in Callers |-> NoResult]
    /\ catalog = <<>>
    /\ books = <<>>
    /\ recReq = [op |-> "none"]
    /\ recResp = [status |-> "none"]

\* POST /api/game/start, then the caller fetches the ids of all characters:
\* from the table as test_guessing_game.py does, or from list_characters as
\* test_api.py does.
StartGame(c) ==
    /\ game[c].status \in {"idle", "terminal"}
    /\ \E tok \in FreshTokens :
       \E ids \in {IdsOf(QueryAll), IdsOf(list_characters)} :
          /\ game' = [game EXCEPT ![c] =
                        [status |-> "awaiting", session_id |-> tok,
                         question_number |-> start_game(tok).result.question_number,
                         candidate_ids |-> ids, asked |-> 0,
                         targets |-> Range(ids)]]
          /\ req' = [req EXCEPT ![c] = Request("start", tok, 0, NULL, <<>>)]
          /\ resp' = [resp EXCEPT ![c] = start_game(tok).result]
    /\ UNCHANGED <<roster, tieBreak, recVars>>

\* POST /api/game/answer by a caller that resupplies what the last response
\* gave it, as the loops of test_api.py and test_guessing_game.py do.
AnswerQuestion(c) ==
    /\ game[c].status = "awaiting"
    /\ \E answer \in AnswersFor(game[c].question_number) :
         LET g == game[c]
             r == answer_question(g.session_id, g.question_number, answer,
                                  g.candidate_ids)
         IN  /\ req' = [req EXCEPT ![c] =
                          Request("answer", g.session_id, g.question_number,
                                  answer, g.candidate_ids)]
             /\ resp' = [resp EXCEPT ![c] = r]
             /\ game' = [game EXCEPT ![c] =
                           IF r.status = "continue"
                           THEN [g EXCEPT !.question_number = r.question_number,
                                          !.candidate_ids = r.candidate_ids,
                                          !.asked = g.asked + 1,
                                          !.targets = StillTargets(g.targets,
                                              g.question_number, answer)]
                           ELSE [g EXCEPT !.status = "terminal",
                                          !.asked = g.asked + 1,
                                          !.targets = StillTargets(g.targets,
                                              g.question_number, answer)]]
    /\ UNCHANGED <<roster, tieBreak, recVars>>

\* A caller whose game has ended sends its last request again, under the
\* same session_id.
Replay(c) ==
    /\ game[c].status = "terminal"
    /\ req[c].op = "answer"
    /\ LET q == req[c]
       IN  /\ req' = [req EXCEPT ![c] = [q EXCEPT !.op = "replay"]]
           /\ resp' = [resp EXCEPT ![c] =
                         answer_question(q.session_id, q.question_number,
                                         q.answer, q.candidate_ids)]
    /\ UNCHANGED <<roster, tieBreak, game, recVars>>

\* POST /api/game/answer by a caller that holds no game: the request is
\* whatever the caller makes up.
DirectCall(c) ==
    /\ game[c].status = "idle"
    /\ \E question_number \in QuestionNumbers, candidate_ids \in SuppliedLists :
       \E answer \in AnswersFor(question_number) :
          /\ game' = [game EXCEPT ![c] = [IdleGame EXCEPT !.status = "direct"]]
          /\ req' = [req EXCEPT ![c] =
                       Request("direct", ForgedToken, question_number, answer,
                               candidate_ids)]
          /\ resp' = [resp EXCEPT ![c] =
                        answer_question(ForgedToken, question_number, answer,
                                        candidate_ids)]
    /\ UNCHANGED <<roster, tieBreak, recVars>>

\* A caller that holds no game sends, under a made-up session_id, the
\* question_number and candidate_ids another caller's game holds.
CopiedCall(c) ==
    /\ game[c].status = "idle"
    /\ \E d \in Callers \ {c} :
         /\ game[d].status = "awaiting"
         /\ \E answer \in AnswersFor(game[d].question_number) :
              /\ game' = [game EXCEPT ![c] = [IdleGame EXCEPT !.status = "direct"]]
              /\ req' = [req EXCEPT ![c] =
                           Request("direct", ForgedToken, game[d].question_number,
                                   answer, game[d].candidate_ids)]
              /\ resp' = [resp EXCEPT ![c] =
                            answer_question(ForgedToken, game[d].question_number,
                                            answer, game[d].candidate_ids)]
    /\ UNCHANGED <<roster, tieBreak, recVars>>

\* One caller.
Next ==
    \/ StartGame("a")
    \/ AnswerQuestion("a")
    \/ Replay("a")
    \/ DirectCall("a")

Spec == Init /\ [][Next]_vars

\* Two callers over one table: the first rows of the seed table.
RostersTwo == {SubSeq(SeedCharacters, 1, n) : n \in 4..MaxRosterTwo}

InitTwo ==
    /\ roster \in RostersTwo
    /\ tieBreak \in {"asc", "desc"}
    /\ game = [c \in Callers |-> IdleGame]
    /\ req = [c \in Callers |-> NoRequest]
    /\ resp = [c \in Callers |-> NoResult]
    /\ catalog = <<>>
    /\ books = <<>>
    /\ recReq = [op |-> "none"]
    /\ recResp = [status |-> "none"]

NextTwo ==
    \E c \in Callers :
        \/ StartGame(c)
        \/ AnswerQuestion(c)
        \/ Replay(c)
        \/ CopiedCall(c)

SpecTwo == InitTwo /\ [][NextTwo]_vars

(***************************************************************************)
(* What the claims speak of, stated apart from the code's operators.       *)
(***************************************************************************)
\* The callers whose last request was an answer_question call.
AnswerCalls == {c \in Callers : req[c].op \in {"answer", "replay", "direct"}}

\* Those whose question_number names one of the six questions.
ValidCalls == {c \in AnswerCalls : req[c].question_number \in 1..6}

\* The supplied ids the table knows.
KnownSupplied(c) == Range(req[c].candidate_ids) \cap RosterIds

\* The supplied candidates that match the answer of caller c's last call.
MatchingIds(c) ==
    {id \in KnownSupplied(c) :
        Matches(id, req[c].question_number, req[c].answer)}

\* The candidates that remain after filtering, and how many the list holds.
RemainingIds(c) ==
    IF MatchingIds(c) # {} THEN MatchingIds(c) ELSE KnownSupplied(c)

RemainingCount(c) ==
    IF MatchingIds(c) # {} THEN Cardinality(MatchingIds(c))
    ELSE Len(req[c].candidate_ids)

GuessedIds(c) == {resp[c].guesses[i].id : i \in DOMAIN resp[c].guesses}

Min(a, b) == IF a <= b THEN a ELSE b

\* The confidence table, as the specification words it.
ConfidenceFor(n) ==
    CASE n = 1 -> 95
      [] n = 2 -> 80
      [] n = 3 -> 65
      [] n \in 4..5 -> 50
      [] OTHER -> 35

(***************************************************************************)
(* C1.  A game that starts with start_game over a non-empty roster and     *)
(* resupplies what each answer returns is never still awaiting an answer   *)
(* after 6 answer_question calls: it has ended in a guess by then, and the *)
(* guess response holds at least one guess.                                *)
(***************************************************************************)
C1_GuessWithinSix ==
    \A c \in Callers :
        /\ game[c].status = "awaiting" => game[c].asked < 6
        /\ game[c].status = "terminal" =>
              /\ game[c].asked <= 6
              /\ resp[c].status = "guess"
              /\ Len(resp[c].guesses) >= 1

\* A game that took all six questions and ended in a guess.
C1_Witness ==
    \E c \in Callers :
        /\ game[c].status = "terminal"
        /\ game[c].asked = 6
        /\ req[c].op = "answer"
        /\ Len(resp[c].guesses) >= 1

(***************************************************************************)
(* C2.  Dead-end guard: when no supplied candidate matches the answer,     *)
(* answer_question goes on with exactly the supplied candidate_ids: a      *)
(* continuation returns that very list, a guess ranks the supplied         *)
(* candidates and counts the whole supplied list; so a non-empty list is   *)
(* never narrowed to nothing.                                              *)
(***************************************************************************)
C2_DeadEndGuard ==
    \A c \in ValidCalls :
        MatchingIds(c) = {} =>
            /\ resp[c].status \in {"continue", "guess"}
            /\ resp[c].status = "continue" =>
                  /\ resp[c].candidate_ids = req[c].candidate_ids
                  /\ resp[c].remaining_candidates = Len(req[c].candidate_ids)
            /\ resp[c].status = "guess" =>
                  /\ GuessedIds(c) \subseteq KnownSupplied(c)
                  /\ Len(resp[c].guesses) = Min(3, Cardinality(KnownSupplied(c)))
                  /\ \A i \in DOMAIN resp[c].guesses :
                        resp[c].guesses[i].confidence
                            = ConfidenceFor(Len(req[c].candidate_ids))

\* A call whose answer matches none of four or more supplied candidates.
C2_Witness ==
    \E c \in ValidCalls :
        /\ MatchingIds(c) = {}
        /\ Len(req[c].candidate_ids) >= 4
        /\ KnownSupplied(c) # {}
        /\ resp[c].status = "continue"
        /\ resp[c].candidate_ids = req[c].candidate_ids

(***************************************************************************)
(* C3.  Termination policy: an answer_question call with question_number   *)
(* in 1..6 returns 'guess' when at most 3 candidates remain after          *)
(* filtering, or question_number >= 6, or no later question is eligible,   *)
(* and returns 'continue' in every other case.                             *)
(***************************************************************************)
\* No question after the one answered is eligible for the remaining list.
NoEligibleQuestion(c) ==
    \A k \in (req[c].question_number + 1)..6 :
        /\ question_tree[k].has_condition
        /\ ~check_condition(question_tree[k].condition,
                            IF MatchingIds(c) # {}
                            THEN IdsOf(RowsOf(roster, MatchingIds(c)))
                            ELSE req[c].candidate_ids)

C3_TerminationPolicy ==
    \A c \in ValidCalls :
        resp[c].status =
            IF \/ RemainingCount(c) <= 3
               \/ req[c].question_number >= 6
               \/ NoEligibleQuestion(c)
            THEN "guess" ELSE "continue"

\* A call that leaves exactly 4 candidates before question 6 and continues.
C3_Witness ==
    \E c \in ValidCalls :
        /\ RemainingCount(c) = 4
        /\ req[c].question_number < 6
        /\ resp[c].status = "continue"

(***************************************************************************)
(* C4 as claimed.  On a roster of 5 characters of which exactly 3 are      *)
(* anime, start_game followed by answering question 1 with 'anime' over    *)
(* all 5 ids returns 'continue' with exactly the 3 anime ids.              *)
(***************************************************************************)
AnimeIds == {id \in RosterIds : RowOf(id).type = "anime"}

\* Caller c has just given the first answer of a game, 'anime', on a roster
\* of 5 with 3 anime characters.
FirstAnswerAnime(c) ==
    /\ Len(roster) = 5
    /\ Cardinality(AnimeIds) = 3
    /\ req[c].op = "answer"
    /\ req[c].question_number = 1
    /\ req[c].answer = "anime"
    /\ Range(req[c].candidate_ids) = RosterIds
    /\ Len(req[c].candidate_ids) = 5

C4_AsClaimed ==
    \A c \in Callers :
        FirstAnswerAnime(c) =>
            /\ resp[c].status = "continue"
            /\ Range(resp[c].candidate_ids) = AnimeIds

(***************************************************************************)
(* C4 amended.  In that case answer_question returns 'guess' after one     *)
(* question: 3 candidates remain, which is within the guessing threshold,  *)
(* and the guesses are exactly the 3 anime characters, each with           *)
(* confidence 65.                                                          *)
(***************************************************************************)
C4_ThreeAnimeAreGuessed ==
    \A c \in Callers :
        FirstAnswerAnime(c) =>
            /\ resp[c].status = "guess"
            /\ GuessedIds(c) = AnimeIds
            /\ Len(resp[c].guesses) = 3
            /\ \A i \in DOMAIN resp[c].guesses : resp[c].guesses[i].confidence = 65
            /\ resp[c].total_questions = 1

C4_Witness ==
    \E c \in Callers : FirstAnswerAnime(c) /\ resp[c].status = "guess"

(***************************************************************************)
(* C5 as claimed.  An answer_question call made with a candidate set of    *)
(* exactly 2 characters returns 'guess' and its top guess has confidence   *)
(* 80, for every question number 1..6 and every answer.                    *)
(***************************************************************************)
\* Caller c's last call supplied exactly two characters of the roster.
TwoCandidates(c) ==
    /\ c \in ValidCalls
    /\ Len(req[c].candidate_ids) = 2
    /\ Cardinality(KnownSupplied(c)) = 2

C5_AsClaimed ==
    \A c \in Callers :
        TwoCandidates(c) =>
            /\ resp[c].status = "guess"
            /\ resp[c].guesses # <<>>
            /\ resp[c].guesses[1].confidence = 80

(***************************************************************************)
(* C5 amended.  Such a call returns 'guess'; its top guess has confidence  *)
(* 80 when the answer matches both candidates or neither, and 95 when it   *)
(* matches exactly one of them (the confidence counts the candidates left  *)
(* after this call's own filtering).                                       *)
(***************************************************************************)
C5_TwoCandidatesGuess ==
    \A c \in Callers :
        TwoCandidates(c) =>
            /\ resp[c].status = "guess"
            /\ resp[c].guesses # <<>>
            /\ resp[c].guesses[1].confidence =
                  IF Cardinality(MatchingIds(c)) = 1 THEN 95 ELSE 80

\* Two candidates, both kept, guessed at 80, at a question other than the 6th.
C5_Witness ==
    \E c \in Callers :
        /\ TwoCandidates(c)
        /\ req[c].question_number = 4
        /\ Cardinality(MatchingIds(c)) = 2
        /\ resp[c].status = "guess"
        /\ resp[c].guesses[1].confidence = 80

(***************************************************************************)
(* C6.  In a guess response every guess has the same confidence, set by    *)
(* the number n of candidates left after filtering and not by the number   *)
(* of guesses: 1 -> 95, 2 -> 80, 3 -> 65, 4..5 -> 50, more -> 35.          *)
(***************************************************************************)
C6_ConfidenceByCount ==
    \A c \in ValidCalls :
        resp[c].status = "guess" =>
            \A i \in DOMAIN resp[c].guesses :
                resp[c].guesses[i].confidence = ConfidenceFor(RemainingCount(c))

\* Three guesses returned out of more than five candidates, at confidence 35.
C6_Witness ==
    \E c \in ValidCalls :
        /\ resp[c].status = "guess"
        /\ RemainingCount(c) > 5
        /\ Len(resp[c].guesses) = 3
        /\ resp[c].guesses[1].confidence = 35

(***************************************************************************)
(* C7.  A guess response lists min(3, remaining candidates in the roster)  *)
(* characters, each a remaining candidate, none twice, in non-increasing   *)
(* popularity_score order, and no remaining candidate left out is more     *)
(* popular than one listed.                                                *)
(***************************************************************************)
C7_TopThreeByPopularity ==
    \A c \in ValidCalls :
        resp[c].status = "guess" =>
            LET g == resp[c].guesses
            IN  /\ Len(g) = Min(3, Cardinality(RemainingIds(c)))
                /\ GuessedIds(c) \subseteq RemainingIds(c)
                /\ Cardinality(GuessedIds(c)) = Len(g)
                /\ \A i, j \in DOMAIN g :
                      i < j => RowOf(g[i].id).popularity_score
                                   >= RowOf(g[j].id).popularity_score
                /\ \A x \in RemainingIds(c) \ GuessedIds(c) :
                      \A i \in DOMAIN g :
                          RowOf(x).popularity_score
                              <= RowOf(g[i].id).popularity_score

\* A guess that leaves out a remaining candidate and ranks unequal scores.
C7_Witness ==
    \E c \in ValidCalls :
        /\ resp[c].status = "guess"
        /\ Cardinality(RemainingIds(c)) >= 4
        /\ Len(resp[c].guesses) = 3
        /\ RowOf(resp[c].guesses[1].id).popularity_score
               > RowOf(resp[c].guesses[3].id).popularity_score

(***************************************************************************)
(* C8 as claimed.  After a game's answer_question call has returned        *)
(* 'guess', a further answer_question call under the same session_id gets  *)
(* neither a continuation nor another guess.                               *)
(***************************************************************************)
\* Caller c, whose game has ended, calls answer_question again.
ReplayStep(c) ==
    /\ game[c].status = "terminal"
    /\ req[c].op = "answer"
    /\ req'[c].op = "replay"
    /\ req'[c].session_id = game[c].session_id

C8_AsClaimed ==
    [][\A c \in Callers :
          ReplayStep(c) => resp'[c].status \notin {"continue", "guess"}]_vars

(***************************************************************************)
(* C8 amended.  A guess result carries no continuation state (its keys are *)
(* status, guesses and total_questions: no question_number and no          *)
(* candidate_ids), so a caller that resupplies what it was returned has    *)
(* nothing to send on and plays again only through start_game, under a new *)
(* session_id from question 1.  The core keeps no record of ended games:   *)
(* a further answer_question call under the same session_id is answered   *)
(* like any other call, with the same result as before.                    *)
(***************************************************************************)
C8_GuessCarriesNoState ==
    [][\A c \in Callers :
          /\ resp'[c].status = "guess" =>
                resp'[c].keys = {"status", "guesses", "total_questions"}
          /\ ReplayStep(c) =>
                /\ resp[c].status = "guess"
                /\ resp'[c] = resp[c]
                /\ game'[c] = game[c]
          /\ (game[c].status = "terminal" /\ game'[c].status = "awaiting") =>
                /\ req'[c].op = "start"
                /\ game'[c].session_id # game[c].session_id
                /\ game'[c].question_number = 1
                /\ game'[c].asked = 0]_vars

\* A finished game whose last request was sent again and guessed again.
C8_Witness ==
    \E c \in Callers :
        /\ game[c].status = "terminal"
        /\ req[c].op = "replay"
        /\ req[c].session_id = game[c].session_id
        /\ resp[c].status = "guess"
        /\ Len(resp[c].guesses) >= 1

(***************************************************************************)
(* C9 as claimed.  Whenever answer_question returns 'continue' with the    *)
(* alignment question (question 3) next, every returned candidate is of    *)
(* category 'anime'.                                                       *)
(***************************************************************************)
\* Caller c's last call was answered with the alignment question.
AlignmentIsNext(c) ==
    /\ c \in ValidCalls
    /\ resp[c].status = "continue"
    /\ resp[c].question_number = 3

C9_AsClaimed ==
    \A c \in Callers :
        AlignmentIsNext(c) =>
            \A id \in Range(resp[c].candidate_ids) \cap RosterIds :
                RowOf(id).type = "anime"

(***************************************************************************)
(* C9 amended.  Whenever answer_question returns 'continue' with the       *)
(* alignment question next, the character named by the first id of the     *)
(* returned candidate_ids is in the roster and of category 'anime'; the    *)
(* other returned candidates may be of any category.                       *)
(***************************************************************************)
C9_FirstCandidateIsAnime ==
    \A c \in Callers :
        AlignmentIsNext(c) =>
            /\ resp[c].candidate_ids # <<>>
            /\ resp[c].candidate_ids[1] \in RosterIds
            /\ RowOf(resp[c].candidate_ids[1]).type = "anime"

\* The alignment question asked of a list that holds an actor too, after an
\* answer that triggered the dead-end guard.
C9_Witness ==
    \E c \in Callers :
        /\ AlignmentIsNext(c)
        /\ MatchingIds(c) = {}
        /\ \E id \in Range(resp[c].candidate_ids) \cap RosterIds :
              RowOf(id).type = "actor"

(***************************************************************************)
(* C10.  The guessing core is stateless: two answer_question calls with    *)
(* the same question_number, answer and candidate_ids over the same roster *)
(* return identical results, whatever their session_id and whatever calls  *)
(* came before them.                                                       *)
(***************************************************************************)
SameInputs(c, d) ==
    /\ req[c].question_number = req[d].question_number
    /\ req[c].answer = req[d].answer
    /\ req[c].candidate_ids = req[d].candidate_ids

C10_SameInputsSameResult ==
    \A c, d \in AnswerCalls : SameInputs(c, d) => resp[c] = resp[d]

\* The third call of a started game and the only call of a caller that
\* started none, with equal inputs and different session_id values.
C10_Witness ==
    \E c, d \in AnswerCalls :
        /\ SameInputs(c, d)
        /\ req[c].session_id # req[d].session_id
        /\ req[c].op = "answer"
        /\ game[c].asked >= 3
        /\ req[d].op = "direct"
        /\ resp[c].status \in {"continue", "guess"}

(***************************************************************************)
(* C11.  Concurrent games never contend: in every interleaving of the      *)
(* start_game and answer_question steps of two games over one roster, a    *)
(* step leaves the roster and the other game's request, response and held  *)
(* state as they were, and every game's response is the one its own        *)
(* request gets over that roster alone, however far the other game has     *)
(* moved since.                                                            *)
(***************************************************************************)
\* What caller c's last request returns when no other request is made.
AloneResponse(c) ==
    CASE req[c].op = "none" -> NoResult
      [] req[c].op = "start" -> start_game(req[c].session_id).result
      [] OTHER -> answer_question(req[c].session_id, req[c].question_number,
                                  req[c].answer, req[c].candidate_ids)

\* The step is caller c's: nothing of another caller changes.
StepOf(c) ==
    \A d \in Callers \ {c} :
        /\ game'[d] = game[d]
        /\ req'[d] = req[d]
        /\ resp'[d] = resp[d]

C11_NoContention ==
    /\ [][/\ roster' = roster
          /\ tieBreak' = tieBreak
          /\ \E c \in Callers : StepOf(c)]_vars
    /\ [](\A c \in Callers : resp[c] = AloneResponse(c))

\* Two games in progress at different questions, each with a response in
\* hand, the further one continuing.
C11_Witness ==
    /\ game["a"].status = "awaiting"
    /\ game["b"].status = "awaiting"
    /\ game["a"].session_id # game["b"].session_id
    /\ game["a"].asked >= 1
    /\ game["b"].asked >= 3
    /\ game["a"].question_number # game["b"].question_number
    /\ resp["a"].status = "continue"
    /\ resp["b"].status = "continue"

(***************************************************************************)
(* C20.  answer_question with question_number in 1..6 and a candidate_ids  *)
(* list that holds an id the roster does not have never raises: no id      *)
(* unknown to the roster is among the guesses, and when none of the        *)
(* supplied ids is known a guess response carries an empty guess list.     *)
(***************************************************************************)
\* The supplied ids the table does not know.
UnknownSupplied(c) == Range(req[c].candidate_ids) \ RosterIds

C20_UnknownIdsTolerated ==
    \A c \in ValidCalls :
        UnknownSupplied(c) # {} =>
            /\ resp[c].status \in {"continue", "guess"}
            /\ GuessedIds(c) \cap UnknownSupplied(c) = {}
            /\ (KnownSupplied(c) = {} /\ resp[c].status = "guess") =>
                   resp[c].guesses = <<>>

\* A call whose only supplied id is unknown ends in a guess without
\* guesses; C20_WitnessMixed is a call with known and unknown ids.
C20_Witness ==
    \E c \in ValidCalls :
        /\ UnknownSupplied(c) # {}
        /\ KnownSupplied(c) = {}
        /\ resp[c].status = "guess"
        /\ resp[c].guesses = <<>>

C20_WitnessMixed ==
    \E c \in ValidCalls :
        /\ UnknownSupplied(c) # {}
        /\ Cardinality(KnownSupplied(c)) >= 2
        /\ resp[c].status = "guess"
        /\ Len(resp[c].guesses) >= 2

(***************************************************************************)
(*                                                                         *)
(* PART TWO.  The recommendation engine of app/models/recommendations.py.  *)
(*                                                                         *)
(* Conventions:                                                            *)
(*   - vote_average (a Float column, 0-10) is held in hundredths, so 753   *)
(*     is 7.53; a score or similarity (rounded to 2 decimals by the code)  *)
(*     is held in hundredths too, so 770 is 7.7.                           *)
(*   - before rounding a score is an exact fraction, held in units of      *)
(*     1/Sub of a hundredth.  The values explored keep every division      *)
(*     exact, and give a half-way case only where the binary float is      *)
(*     exact too, so that Python's round (half to even) is what PyRound    *)
(*     computes.                                                           *)
(*   - None in a number column is NoneNum, the NaN pandas makes of it is   *)
(*     NaN; None in a list or str position is the sequence NoneSeq.        *)
(*   - a str that the code slices (decade) is a sequence of characters.    *)
(*   - an exception raised inside the engine is Raised where a number is   *)
(*     expected and a result of status "error" (the route's HTTP 500)      *)
(*     where a result is.                                                  *)
(*   - a body the schema of a route turns away is answered with a result   *)
(*     of status "rejected" (FastAPI's 422); the route is not entered.     *)
(***************************************************************************)
\* Largest movies table explored, and largest top_n asked for.
MaxCatalog == 3

MaxTopN == 3

NoneNum == -1

NaN == -2

Raised == -3

NoneSeq == <<NULL>>

\* Units per hundredth in which unrounded scores are held.
Sub == 60

\* bool(x) for an Optional list or str, and for an Optional number.
TruthySeq(x) == x # NoneSeq /\ x # <<>>

TruthyNum(x) == x # NoneNum /\ x # NaN /\ x # 0

\* pd.notna
notna(x) == x # NoneNum /\ x # NaN

Abs(x) == IF x >= 0 THEN x ELSE 0 - x

\* round(x, 2) of x = n / d hundredths (d > 0, n >= 0): to the nearest
\* hundredth, a half-way case to the even neighbour.
PyRound(n, d) ==
    LET q == n \div d
        r == n % d
    IN  IF 2 * r > d THEN q + 1
        ELSE IF 2 * r < d THEN q
        ELSE IF q % 2 = 0 THEN q ELSE q + 1

\* int(s) of a str of decimal digits; ValueError(s) when int(s) raises.
Digits == <<"0", "1", "2", "3", "4", "5", "6", "7", "8", "9">>

ValueError(s) == s = <<>> \/ \E i \in DOMAIN s : s[i] \notin Range(Digits)

RECURSIVE PyInt(_)
PyInt(s) ==
    IF s = <<>> THEN 0
    ELSE PyInt(SubSeq(s, 1, Len(s) - 1)) * 10
         + (CHOOSE d \in 0..9 : Digits[d + 1] = s[Len(s)])

\* s[:n]
Prefix(s, n) == SubSeq(s, 1, Min(n, Len(s)))

(***************************************************************************)
(* The movies table (app/database/models.py, Movie).                       *)
(***************************************************************************)
Movie(id, genres, decade, vote_average, vote_count, popularity) ==
    [id |-> id, genres |-> genres, decade |-> decade,
     vote_average |-> vote_average, vote_count |-> vote_count,
     popularity |-> popularity]

\* The rows the tables explored are made of: rows with every column
\* filled, a row with a rating only, a row with an empty genre list, no
\* rating and popularity 0, and a row that matches a profile on every
\* count.
MoviePool ==
    <<Movie(1, <<"Action", "Sci-Fi">>, 2020, 800, 500, 300),
      Movie(2, <<"Comedy">>, 1990, 500, 200, 200),
      Movie(3, <<"Action", "Thriller">>, 2010, 750, 150, 150),
      Movie(4, <<"Drama">>, 2010, 753, 50, 100),
      Movie(5, NoneSeq, NoneNum, 600, NoneNum, NoneNum),
      Movie(6, <<>>, 2000, NoneNum, 0, 0),
      Movie(7, <<"Action", "Thriller", "Horror", "War", "Crime", "Drama">>,
            2020, 1000, 900, 250)>>

MovieIds == {MoviePool[i].id : i \in DOMAIN MoviePool}

\* The tables explored: up to MaxCatalog rows of the pool, in id order.
Catalogs ==
    {RowsOf(MoviePool, S) :
        S \in {T \in SUBSET MovieIds : Cardinality(T) <= MaxCatalog}}

\* An id no row has.
UnknownMovieId == CHOOSE n \in 0..100 : n \notin MovieIds

(***************************************************************************)
(* The books table (app/database/models.py, Book).  Its ids are its own:   *)
(* a book and a movie may have the same id.                                *)
(***************************************************************************)
Book(id, categories, decade, average_rating, ratings_count) ==
    [id |-> id, categories |-> categories, decade |-> decade,
     average_rating |-> average_rating, ratings_count |-> ratings_count]

BookTable ==
    <<Book(1, <<"Fiction", "Fantasy">>, 2010, 450, 120),
      Book(2, <<"Action">>, 2020, 400, 30)>>

(***************************************************************************)
(* Queries on the movies table, and the DataFrame made of their rows.      *)
(***************************************************************************)
\* The rows of `rows` in non-increasing order of their keys (keys[i] is
\* the key of rows[i]), rows of equal key in the order they had: what a stable sort with reverse=True gives, and what
\* DataFrame.sort_values(ascending=False) gives on the frames explored
\* (numpy sorts fewer than 17 values by insertion).
RECURSIVE SortDesc(_, _)
SortDesc(rows, keys) ==
    IF rows = <<>> THEN <<>>
    ELSE LET top == CHOOSE i \in DOMAIN rows :
                        /\ \A j \in DOMAIN rows : keys[j] <= keys[i]
                        /\ \A j \in 1..(i - 1) : keys[j] < keys[i]
             Without(q) == SubSeq(q, 1, top - 1) \o SubSeq(q, top + 1, Len(q))
         IN  <<rows[top]>> \o SortDesc(Without(rows), Without(keys))

\* The place of a popularity under ORDER BY popularity DESC: PostgreSQL
\* puts NULL first.
PopularityKeys(rows) ==
    [i \in DOMAIN rows |->
        IF rows[i].popularity = NoneNum THEN 1000000 ELSE rows[i].popularity]

\* crud.get_all_movies(db, limit)
get_all_movies(limit) ==
    Limit(SortDesc(catalog, PopularityKeys(catalog)), limit)

\* db.query(Movie).filter(Movie.id == movie_id).first(); <<>> stands for None
MovieFirst(movie_id) == SelectSeq(catalog, LAMBDA m : m.id = movie_id)

\* db.query(Movie).filter(Movie.id != movie_id).all()
MoviesOtherThan(movie_id) == SelectSeq(catalog, LAMBDA m : m.id # movie_id)

\* What pandas makes of a number column: a column of None only stays None
\* (dtype object); in any other column None becomes NaN (dtype float64).
ToColumn(rows, field, value) ==
    IF value = NoneNum /\ \E i \in DOMAIN rows : rows[i][field] # NoneNum
    THEN NaN ELSE value

\* pd.DataFrame(movies_data)
DataFrame(rows) ==
    [i \in DOMAIN rows |->
        [rows[i] EXCEPT
            !.decade = ToColumn(rows, "decade", @),
            !.vote_average = ToColumn(rows, "vote_average", @),
            !.vote_count = ToColumn(rows, "vote_count", @),
            !.popularity = ToColumn(rows, "popularity", @)]]

(***************************************************************************)
(* RecommendationEngine._calculate_movie_score                             *)
(***************************************************************************)
mood_map ==
    ("intense" :> <<"Action", "Thriller", "Horror", "War">>)
    @@ ("light-hearted" :> <<"Comedy", "Animation", "Family", "Romance">>)
    @@ ("thought-provoking"
           :> <<"Drama", "Mystery", "Science Fiction", "Documentary">>)
    @@ ("emotional" :> <<"Drama", "Romance", "Family">>)
    @@ ("suspenseful" :> <<"Thriller", "Mystery", "Horror", "Crime">>)

setting_map ==
    ("modern" :> <<"Action", "Thriller", "Crime", "Drama">>)
    @@ ("historical" :> <<"History", "War", "Drama">>)
    @@ ("futuristic" :> <<"Science Fiction", "Fantasy">>)
    @@ ("fantasy_world" :> <<"Fantasy", "Adventure", "Animation">>)

\* sum(1 for g in wanted if g in movie_genres)
Matches_in(wanted, movie_genres) ==
    Cardinality({i \in DOMAIN wanted : wanted[i] \in Range(movie_genres)})

\* movie['genres'] if isinstance(movie['genres'], list) else []
GenresOf(movie) == IF movie.genres # NoneSeq THEN movie.genres ELSE <<>>

\* Mutant: the matches are not divided by the number of genres asked for.
GenreScore_undivided(movie, genres) ==
    IF TruthySeq(genres)
    THEN Matches_in(genres, GenresOf(movie)) * 400 * Sub
    ELSE 200 * Sub

\* Lines 167-172.
GenreScore(movie, genres) ==
    IF TruthySeq(genres)
    THEN (Matches_in(genres, GenresOf(movie)) * 400 * Sub) \div Len(genres)
    ELSE 200 * Sub

\* Lines 175-182; Raised for the TypeError of None - int, and for the
\* ValueError of int().
DecadeScore(movie, decade) ==
    IF TruthySeq(decade)
    THEN IF ValueError(Prefix(decade, 4)) THEN Raised
         ELSE LET decade_num == PyInt(Prefix(decade, 4))
              IN  IF decade_num # 0 /\ movie.decade = decade_num
                  THEN 150 * Sub
                  ELSE IF decade_num = 0 THEN 0
                  ELSE IF movie.decade = NoneNum THEN Raised
                  ELSE IF movie.decade # NaN
                          /\ Abs(movie.decade - decade_num) = 10
                  THEN 75 * Sub
                  ELSE 0
    ELSE 75 * Sub

\* Lines 185-191.
MoodScore(movie, mood) ==
    IF mood # NULL /\ mood # "" /\ mood \in DOMAIN mood_map
    THEN (Matches_in(mood_map[mood], GenresOf(movie)) * 200 * Sub)
             \div Len(mood_map[mood])
    ELSE 100 * Sub

\* Lines 194-200.
SettingScore(movie, setting) ==
    IF setting # NULL /\ setting # "" /\ setting \in DOMAIN setting_map
    THEN (Matches_in(setting_map[setting], GenresOf(movie)) * 100 * Sub)
             \div Len(setting_map[setting])
    ELSE 50 * Sub

\* Mutant: a missing rating is read as the top rating.
QualityScore_default(movie) ==
    IF notna(movie.vote_average)
    THEN (movie.vote_average * 15 * Sub) \div 100
    ELSE (1000 * 15 * Sub) \div 100

\* Lines 203-207: (rating / 10.0) * 1.5.
QualityScore(movie) ==
    IF notna(movie.vote_average) /\ movie.vote_average > 0
    THEN (movie.vote_average * 15 * Sub) \div 100
    ELSE 0

calculate_movie_score(movie, genres, decade, mood, setting, min_rating) ==
    IF DecadeScore(movie, decade) = Raised THEN Raised
    ELSE PyRound(GenreScore(movie, genres) + DecadeScore(movie, decade)
                 + MoodScore(movie, mood) + SettingScore(movie, setting)
                 + QualityScore(movie), Sub)

(***************************************************************************)
(* RecommendationEngine._get_match_reason                                  *)
(***************************************************************************)
\* The reasons joined into match_reason, each by its kind.
get_match_reason(movie, genres, decade, mood, setting) ==
    LET movie_genres == GenresOf(movie)
        genre == IF TruthySeq(genres) /\ Matches_in(genres, movie_genres) > 0
                 THEN <<"genre">> ELSE <<>>
        dec == IF TruthySeq(decade)
                  /\ movie.decade = PyInt(Prefix(decade, 4))
               THEN <<"decade">> ELSE <<>>
        md == IF mood # NULL /\ mood # "" /\ mood \in DOMAIN mood_map
                 /\ Matches_in(mood_map[mood], movie_genres) > 0
              THEN <<"mood">> ELSE <<>>
        rated == IF movie.vote_average # NaN /\ movie.vote_average >= 750
                 THEN <<"rating">> ELSE <<>>
        popular == IF movie.popularity # NaN /\ movie.popularity > 100
                   THEN <<"popular">> ELSE <<>>
        reasons == genre \o dec \o md \o rated \o popular
    IN  IF reasons # <<>> THEN reasons ELSE <<"overall">>

\* The comparisons of lines 245 and 249 raise TypeError on None (NaN
\* compares False), and int() of line 233 raises ValueError.
MatchReasonRaises(movie, decade) ==
    \/ TruthySeq(decade) /\ ValueError(Prefix(decade, 4))
    \/ movie.vote_average = NoneNum
    \/ movie.popularity = NoneNum

(***************************************************************************)
(* RecommendationEngine.recommend_movies                                   *)
(***************************************************************************)
\* DataFrame.head(n) and list[:n]: the first n rows, all but the last -n
\* when n is negative.
PyHead(rows, n) ==
    IF n >= 0 THEN SubSeq(rows, 1, Min(n, Len(rows)))
    ELSE SubSeq(rows, 1, Len(rows) + n)

RECURSIVE SumSeq(_)
SumSeq(q) == IF q = <<>> THEN 0 ELSE q[1] + SumSeq(Tail(q))

\* A row of the frame with its score, and a returned record.
Scored(row, score, match_reason) ==
    [id |-> row.id, genres |-> row.genres, decade |-> row.decade,
     vote_average |-> row.vote_average, vote_count |-> row.vote_count,
     popularity |-> row.popularity, score |-> score,
     match_reason |-> match_reason]

ScoresOf(rows) == [i \in DOMAIN rows |-> rows[i].score]

RecResult(status, recommendations, match_quality, total_candidates) ==
    [status |-> status, recommendations |-> recommendations,
     match_quality |-> match_quality, total_candidates |-> total_candidates]

\* The HTTP 500 the route makes of an exception.
RecError == RecResult("error", <<>>, NULL, 0)

\* Mutant: the label is that of the best score.
MatchQuality_best(top_scores) ==
    IF top_scores = <<>> THEN "none"
    ELSE IF top_scores[1] >= 700 THEN "high"
    ELSE IF top_scores[1] >= 400 THEN "medium"
    ELSE "low"

\* Lines 117-127: the label of the mean of the scores.
MatchQuality(top_scores) ==
    IF Len(top_scores) > 0
    THEN IF SumSeq(top_scores) >= 700 * Len(top_scores) THEN "high"
         ELSE IF SumSeq(top_scores) >= 400 * Len(top_scores) THEN "medium"
         ELSE "low"
    ELSE "none"

\* Mutant: the filter runs whenever min_rating is given.
MinRatingFilter_given(df, min_rating) ==
    IF min_rating # NoneNum
    THEN SelectSeq(df, LAMBDA r : notna(r.vote_average)
                                  /\ r.vote_average >= min_rating)
    ELSE df

\* Lines 110-111: a comparison with None or NaN in the column is False.
MinRatingFilter(df, min_rating) ==
    IF TruthyNum(min_rating)
    THEN SelectSeq(df, LAMBDA r : notna(r.vote_average)
                                  /\ r.vote_average >= min_rating)
    ELSE df

recommend_movies(genres, decade, mood, setting, min_rating, top_n) ==
    LET all_movies == get_all_movies(1000)
        frame == DataFrame(all_movies)
        df == [i \in DOMAIN frame |->
                  Scored(frame[i],
                         calculate_movie_score(frame[i], genres, decade, mood,
                                               setting, min_rating),
                         <<>>)]
        kept == MinRatingFilter(df, min_rating)
        sorted == SortDesc(kept, ScoresOf(kept))
        top == PyHead(sorted, top_n)
        recommendations ==
            [i \in DOMAIN top |->
                [top[i] EXCEPT !.match_reason =
                    get_match_reason(top[i], genres, decade, mood, setting)]]
    IN  IF all_movies = <<>> THEN RecResult("ok", <<>>, "none", 0)
        ELSE IF \E i \in DOMAIN df : df[i].score = Raised THEN RecError
        ELSE IF \E i \in DOMAIN top : MatchReasonRaises(top[i], decade)
        THEN RecError
        ELSE RecResult("ok", recommendations, MatchQuality(ScoresOf(top)),
                       Len(all_movies))

(***************************************************************************)
(* RecommendationEngine._calculate_similarity, _get_similarity_reason and  *)
(* get_similar_movies                                                      *)
(***************************************************************************)
\* set(movie.genres) if movie.genres else set()
GenreSet(movie) ==
    IF TruthySeq(movie.genres) THEN Range(movie.genres) ELSE {}

Max(a, b) == IF a >= b THEN a ELSE b

\* Mutant: the genre overlap is measured against the first movie's genres.
calculate_similarity_onesided(movie1, movie2) ==
    LET genres1 == GenreSet(movie1)
        genres2 == GenreSet(movie2)
        both == genres1 # {} /\ genres2 # {}
        union == IF both THEN Cardinality(genres1) ELSE 1
        intersection == IF both THEN Cardinality(genres1 \cap genres2) ELSE 0
    IN  PyRound(intersection * 500, union)

\* The four terms are fractions of a hundredth: they are added over the
\* common denominator union * 5 * hi and the sum is rounded.
calculate_similarity(movie1, movie2) ==
    LET genres1 == GenreSet(movie1)
        genres2 == GenreSet(movie2)
        both == genres1 # {} /\ genres2 # {}
        union == IF both THEN Cardinality(genres1 \cup genres2) ELSE 1
        intersection == IF both THEN Cardinality(genres1 \cap genres2) ELSE 0
        decade_diff == Abs(movie1.decade - movie2.decade)
        decade_term ==
            IF TruthyNum(movie1.decade) /\ TruthyNum(movie2.decade)
            THEN IF decade_diff = 0 THEN 200
                 ELSE IF decade_diff = 10 THEN 100
                 ELSE IF decade_diff = 20 THEN 50
                 ELSE 0
            ELSE 0
        rated == TruthyNum(movie1.vote_average) /\ TruthyNum(movie2.vote_average)
        rating_diff == Abs(movie1.vote_average - movie2.vote_average)
        \* max(0, (10 - rating_diff) / 10) * 2.0, in fifths of a hundredth
        rating_fifths == IF rated THEN Max(0, 1000 - rating_diff) ELSE 0
        popular == TruthyNum(movie1.popularity) /\ TruthyNum(movie2.popularity)
        lo == IF popular THEN Min(movie1.popularity, movie2.popularity) ELSE 0
        hi == IF popular THEN Max(movie1.popularity, movie2.popularity) ELSE 1
    IN  PyRound(intersection * 500 * 5 * hi
                + decade_term * union * 5 * hi
                + rating_fifths * union * hi
                + lo * 100 * union * 5,
                union * 5 * hi)

get_similarity_reason(movie1, movie2) ==
    LET shared == IF GenreSet(movie1) \cap GenreSet(movie2) # {}
                  THEN <<"genres">> ELSE <<>>
        same == IF movie1.decade = movie2.decade THEN <<"decade">> ELSE <<>>
        rated == IF /\ TruthyNum(movie1.vote_average)
                    /\ TruthyNum(movie2.vote_average)
                    /\ Abs(movie1.vote_average - movie2.vote_average) < 50
                 THEN <<"ratings">> ELSE <<>>
        reasons == shared \o same \o rated
    IN  IF reasons # <<>> THEN reasons ELSE <<"general">>

\* A returned record of get_similar_movies.
Similar(movie, similarity_score, match_reason) ==
    [id |-> movie.id, genres |-> movie.genres, decade |-> movie.decade,
     vote_average |-> movie.vote_average, vote_count |-> movie.vote_count,
     popularity |-> movie.popularity, similarity_score |-> similarity_score,
     match_reason |-> match_reason]

SimilaritiesOf(rows) == [i \in DOMAIN rows |-> rows[i].similarity_score]

\* Mutant: the reference movie is among the movies compared.
get_similar_movies_all(movie_id, top_n) ==
    LET reference_movie == MovieFirst(movie_id)
        similar_movies ==
            [i \in DOMAIN catalog |->
                Similar(catalog[i],
                        calculate_similarity(reference_movie[1], catalog[i]),
                        get_similarity_reason(reference_movie[1], catalog[i]))]
    IN  IF reference_movie = <<>> THEN <<>>
        ELSE PyHead(SortDesc(similar_movies, SimilaritiesOf(similar_movies)),
                    top_n)

get_similar_movies(movie_id, top_n) ==
    LET reference_movie == MovieFirst(movie_id)
        all_movies == MoviesOtherThan(movie_id)
        similar_movies ==
            [i \in DOMAIN all_movies |->
                Similar(all_movies[i],
                        calculate_similarity(reference_movie[1], all_movies[i]),
                        get_similarity_reason(reference_movie[1], all_movies[i]))]
    IN  IF reference_movie = <<>> THEN <<>>
        ELSE PyHead(SortDesc(similar_movies, SimilaritiesOf(similar_movies)),
                    top_n)

(***************************************************************************)
(* RecommendationEngine.get_trending_recommendations                       *)
(***************************************************************************)
\* PostgreSQL turns a negative LIMIT away ("LIMIT must not be negative").
LimitRaises(n) == n < 0

\* Lines 421-445.  A row without a vote_count fails the comparison of the
\* filter; `raised` says that the query raised.
get_trending_recommendations(top_n) ==
    LET voted == SelectSeq(catalog, LAMBDA m : /\ m.vote_count # NoneNum
                                               /\ m.vote_count >= 100)
        trending_movies ==
            Limit(SortDesc(voted, PopularityKeys(voted)), top_n)
        result ==
            [i \in DOMAIN trending_movies |->
                [id |-> trending_movies[i].id,
                 genres |-> trending_movies[i].genres,
                 decade |-> trending_movies[i].decade,
                 vote_average |-> trending_movies[i].vote_average,
                 vote_count |-> trending_movies[i].vote_count,
                 popularity |-> trending_movies[i].popularity,
                 match_reason |-> "Currently trending"]]
    IN  IF LimitRaises(top_n) THEN [raised |-> TRUE, result |-> <<>>]
        ELSE [raised |-> FALSE, result |-> result]

(***************************************************************************)
(* The routes of app/routes/recommendations.py, called over one table.     *)
(***************************************************************************)
\* The preference profiles tried.  "Sci-Fi" is no genre of mood_map or
\* setting_map; "cheerful" is no key of mood_map.
GenreLists == {NoneSeq, <<>>, <<"Action", "Sci-Fi">>, <<"Action">>}

Decades == {NoneSeq, <<"2", "0", "2", "0", "s">>, <<"2", "0", "1", "0", "s">>}

Moods == {NULL, "intense", "cheerful"}

Settings == {NULL, "modern", "historical"}

\* min_rating: absent, 0, 5.0 and 7.51.
MinRatings == {NoneNum, 0, 500, 751}

TopNs == 1..MaxTopN

\* The values of top_n outside the bounds of the schema (ge=1, le=20) that
\* are tried.
OutOfBoundsTopNs == {-1, 0, 21}

\* A body of POST /api/recommendations.
RecommendationRequest(content_type, genres, decade, mood, setting, min_rating, top_n) ==
    [op |-> "recommend", content_type |-> content_type, genres |-> genres,
     decade |-> decade, mood |-> mood, setting |-> setting,
     min_rating |-> min_rating, top_n |-> top_n]

\* The validation pydantic runs on the body before the route is entered:
\* min_rating absent or in 0..10, top_n in 1..20.
SchemaAccepts(request) ==
    /\ request.min_rating = NoneNum
         \/ (0 <= request.min_rating /\ request.min_rating <= 10 * 100)
    /\ 1 <= request.top_n
    /\ request.top_n <= 20

\* The bodies tried: every profile for movies; for books, and for a top_n
\* out of bounds, the profiles without decade, mood and setting.
RecommendationRequests ==
    {RecommendationRequest("movie", genres, decade, mood, setting,
                           min_rating, top_n) :
        genres \in GenreLists, decade \in Decades, mood \in Moods,
        setting \in Settings, min_rating \in MinRatings, top_n \in TopNs}
    \cup
    {RecommendationRequest("book", genres, NoneSeq, NULL, NULL, NoneNum,
                           top_n) :
        genres \in {NoneSeq, <<"Action">>}, top_n \in TopNs}
    \cup
    {RecommendationRequest(content_type, genres, NoneSeq, NULL, NULL,
                           NoneNum, top_n) :
        content_type \in {"movie", "book"},
        genres \in {NoneSeq, <<"Action">>}, top_n \in OutOfBoundsTopNs}

\* The 422 FastAPI answers a body the schema turns away with.
RecRejected == RecResult("rejected", <<>>, NULL, 0)

\* The route get_recommendations (lines 34-65): both content types call
\* recommend_movies; any other is answered with an error.
get_recommendations(request) ==
    IF request.content_type = "movie"
    THEN recommend_movies(request.genres, request.decade, request.mood,
                          request.setting, request.min_rating, request.top_n)
    ELSE IF request.content_type = "book"
    THEN recommend_movies(request.genres, request.decade, request.mood,
                          request.setting, request.min_rating, request.top_n)
    ELSE RecError

NoRecRequest == [op |-> "none"]

NoRecResult == [status |-> "none"]

InitRec ==
    /\ catalog \in Catalogs
    /\ books = BookTable
    /\ recReq = NoRecRequest
    /\ recResp = NoRecResult
    /\ roster = <<>>
    /\ tieBreak = "asc"
    /\ game = [c \in Callers |-> IdleGame]
    /\ req = [c \in Callers |-> NoRequest]
    /\ resp = [c \in Callers |-> NoResult]

\* POST /api/recommendations
Recommend ==
    /\ recReq.op = "none"
    /\ \E request \in RecommendationRequests :
          /\ recReq' = request
          /\ recResp' = IF SchemaAccepts(request)
                        THEN get_recommendations(request)
                        ELSE RecRejected
    /\ UNCHANGED <<roster, tieBreak, game, req, resp, catalog, books>>

\* GET /api/movies/{movie_id}/similar: top_n is a bare int of the query.
SimilarTo ==
    /\ recReq.op = "none"
    /\ \E movie_id \in MovieIds \cup {UnknownMovieId} :
       \E top_n \in TopNs \cup OutOfBoundsTopNs :
          /\ recReq' = [op |-> "similar", movie_id |-> movie_id,
                        top_n |-> top_n]
          /\ recResp' = [status |-> "ok", reference_movie_id |-> movie_id,
                         similar_movies |-> get_similar_movies(movie_id, top_n)]
    /\ UNCHANGED <<roster, tieBreak, game, req, resp, catalog, books>>

\* GET /api/trending/movies: top_n is a bare int of the query.
Trending ==
    /\ recReq.op = "none"
    /\ \E top_n \in TopNs \cup OutOfBoundsTopNs :
          /\ recReq' = [op |-> "trending", top_n |-> top_n]
          /\ recResp' = IF get_trending_recommendations(top_n).raised
                        THEN [status |-> "error"]
                        ELSE [status |-> "ok",
                              trending |->
                                  get_trending_recommendations(top_n).result]
    /\ UNCHANGED <<roster, tieBreak, game, req, resp, catalog, books>>

NextRec ==
    \/ Recommend
    \/ SimilarTo
    \/ Trending

SpecRec == InitRec /\ [][NextRec]_vars

(***************************************************************************)
(* What the claims about the engine speak of.                              *)
(***************************************************************************)
\* recommend_movies was called: the body passed the schema.
RecommendCalled == recReq.op = "recommend" /\ recResp.status # "rejected"

SimilarCalled == recReq.op = "similar"

\* The rows the scorer is applied to by the call made.
ScoredRows == DataFrame(get_all_movies(1000))

\* The score the scorer gives a row under the profile of the call made.
ScoreOf(row) ==
    calculate_movie_score(row, recReq.genres, recReq.decade, recReq.mood,
                          recReq.setting, recReq.min_rating)

\* The row of the table with this id.
MovieOf(id) == MovieFirst(id)[1]

(***************************************************************************)
(* C12 as claimed.  For every item whose rating is absent or in [0,10]     *)
(* and every preference profile, the weighted scorer computes a score in   *)
(* [0,10].                                                                 *)
(***************************************************************************)
C12_AsClaimed ==
    RecommendCalled =>
        \A i \in DOMAIN ScoredRows :
            /\ 0 <= ScoreOf(ScoredRows[i])
            /\ ScoreOf(ScoredRows[i]) <= 1000

\* Where the scorer does return, the score is in [0,10].
C12_ReturnedScoresInRange ==
    RecommendCalled =>
        \A i \in DOMAIN ScoredRows :
            \/ ScoreOf(ScoredRows[i]) = Raised
            \/ 0 <= ScoreOf(ScoredRows[i]) /\ ScoreOf(ScoredRows[i]) <= 1000

\* A row that takes every weight in full: a score of 10.
C12_FullScore ==
    /\ RecommendCalled
    /\ \E i \in DOMAIN ScoredRows : ScoreOf(ScoredRows[i]) = 1000

(***************************************************************************)
(* C13 as claimed.  For a profile with no genres, decade, mood or setting, *)
(* every item's score is 2.0 + 0.75 + 1.0 + 0.5 + its quality term         *)
(* ((rating/10)*1.5, or 0 without a rating), to the 2 decimals a score     *)
(* has, and recommend returns the items ordered by rating alone: no item   *)
(* comes before one with a higher rating.                                  *)
(***************************************************************************)
NoCriteria ==
    /\ RecommendCalled
    /\ ~TruthySeq(recReq.genres)
    /\ ~TruthySeq(recReq.decade)
    /\ recReq.mood = NULL
    /\ recReq.setting = NULL

\* The rating an item is ordered by: none counts as the lowest, 0.
RatingOf(item) == IF notna(item.vote_average) THEN item.vote_average ELSE 0

\* 100 times the neutral score plus the quality term, in hundredths.
NeutralScore100(item) == 100 * (200 + 75 + 100 + 50) + 15 * RatingOf(item)

C13_AsClaimed ==
    NoCriteria =>
        /\ \A i \in DOMAIN ScoredRows :
              Abs(100 * ScoreOf(ScoredRows[i]) - NeutralScore100(ScoredRows[i]))
                  <= 50
        /\ recResp.status = "ok"
        /\ \A i, j \in DOMAIN recResp.recommendations :
              i < j => RatingOf(recResp.recommendations[i])
                          >= RatingOf(recResp.recommendations[j])

\* The part of C13 that holds: the scores are the neutral scores, and a
\* list that recommend returns is in the order of the scores.
C13_NeutralScores ==
    NoCriteria =>
        /\ \A i \in DOMAIN ScoredRows :
              Abs(100 * ScoreOf(ScoredRows[i]) - NeutralScore100(ScoredRows[i]))
                  <= 50
        /\ recResp.status = "ok" =>
              \A i, j \in DOMAIN recResp.recommendations :
                  i < j => recResp.recommendations[i].score
                              >= recResp.recommendations[j].score

\* Ratings 7.5 and 7.53 both give the score 5.38, and the item rated 7.5,
\* the more popular, is returned first.
C13_RoundedTie ==
    /\ NoCriteria
    /\ recResp.status = "ok"
    /\ \E i, j \in DOMAIN recResp.recommendations :
          /\ i < j
          /\ recResp.recommendations[i].score = recResp.recommendations[j].score
          /\ RatingOf(recResp.recommendations[i])
                < RatingOf(recResp.recommendations[j])

\* recommend raises over a table none of whose rows has a rating.
C13_Raises ==
    /\ NoCriteria
    /\ catalog # <<>>
    /\ recResp.status = "error"

(***************************************************************************)
(* C14 as claimed.  For the profile {genres: [Action, Sci-Fi], decade:     *)
(* 2020s, mood: intense, top_n: 3} over a catalog holding an item with     *)
(* genres [Action, Sci-Fi], decade 2020, rating 8.0 (movie 1) and an item  *)
(* with genres [Comedy], decade 1990, rating 5.0 (movie 2), recommend      *)
(* ranks the first strictly above the second and returns match_quality     *)
(* 'high'.                                                                 *)
(***************************************************************************)
ExampleCall ==
    /\ RecommendCalled
    /\ recReq.genres = <<"Action", "Sci-Fi">>
    /\ recReq.decade = <<"2", "0", "2", "0", "s">>
    /\ recReq.mood = "intense"
    /\ recReq.setting = NULL
    /\ recReq.min_rating = NoneNum
    /\ recReq.top_n = 3
    /\ {1, 2} \subseteq {catalog[i].id : i \in DOMAIN catalog}

\* The places at which the movie with this id is returned.
PlacesOf(id) ==
    {i \in DOMAIN recResp.recommendations : recResp.recommendations[i].id = id}

RanksAbove(a, b) ==
    /\ PlacesOf(a) # {}
    /\ \A i \in PlacesOf(a), j \in PlacesOf(b) :
          /\ i < j
          /\ recResp.recommendations[i].score > recResp.recommendations[j].score

C14_AsClaimed ==
    ExampleCall =>
        /\ recResp.status = "ok"
        /\ RanksAbove(1, 2)
        /\ recResp.match_quality = "high"

(***************************************************************************)
(* C14 amended.  In that case recommend returns the first item with score  *)
(* 7.7, strictly above the second (score 1.25) whenever the second is      *)
(* returned; match_quality is the label of the mean of the returned        *)
(* scores, which is never 'high' when the second item is among the 3       *)
(* returned, and is 'medium' (mean 4.475) when the catalog holds just the  *)
(* two items.                                                              *)
(***************************************************************************)
C14_RankedAboveNotHigh ==
    ExampleCall =>
        /\ recResp.status = "ok"
        /\ RanksAbove(1, 2)
        /\ \A i \in PlacesOf(1) : recResp.recommendations[i].score = 770
        /\ \A j \in PlacesOf(2) : recResp.recommendations[j].score = 125
        /\ PlacesOf(2) # {} => recResp.match_quality \in {"medium", "low"}
        /\ Len(catalog) = 2 => recResp.match_quality = "medium"

\* The example call over the two items alone.
C14_Witness ==
    /\ ExampleCall
    /\ Len(catalog) = 2
    /\ PlacesOf(1) = {1}
    /\ PlacesOf(2) = {2}
    /\ recResp.match_quality = "medium"

(***************************************************************************)
(* C15.  The match_quality recommend returns is that of the mean score of  *)
(* the returned items: 'high' for a mean of 7 or more, 'medium' for a mean *)
(* from 4 up to 7, 'low' for a mean below 4, and 'none' exactly when the   *)
(* returned list is empty.                                                 *)
(***************************************************************************)
\* The sum of the returned scores and the number of them.
ReturnedSum == SumSeq(ScoresOf(recResp.recommendations))

ReturnedCount == Len(recResp.recommendations)

C15_MatchQualityByMean ==
    (RecommendCalled /\ recResp.status = "ok") =>
        /\ recResp.match_quality = "none" <=> ReturnedCount = 0
        /\ ReturnedCount > 0 =>
              /\ recResp.match_quality = "high"
                    <=> ReturnedSum >= 700 * ReturnedCount
              /\ recResp.match_quality = "medium"
                    <=> /\ ReturnedSum >= 400 * ReturnedCount
                        /\ ReturnedSum < 700 * ReturnedCount
              /\ recResp.match_quality = "low"
                    <=> ReturnedSum < 400 * ReturnedCount

\* A list whose best score is 7 or more and whose mean is below 7.
C15_Witness ==
    /\ RecommendCalled
    /\ recResp.status = "ok"
    /\ ReturnedCount >= 2
    /\ recResp.recommendations[1].score >= 700
    /\ recResp.match_quality = "medium"

\* Lists labelled 'high', 'low' and 'none' are returned too.
C15_WitnessHigh ==
    RecommendCalled /\ recResp.status = "ok" /\ ReturnedCount >= 2
    /\ recResp.match_quality = "high"

C15_WitnessLow ==
    RecommendCalled /\ recResp.status = "ok" /\ recResp.match_quality = "low"

C15_WitnessNone ==
    /\ RecommendCalled
    /\ recResp.status = "ok"
    /\ catalog # <<>>
    /\ recResp.match_quality = "none"

(***************************************************************************)
(* C16 as claimed.  For every profile that supplies min_rating (any value  *)
(* in 0..10, 0 included), every item recommend returns has a rating of     *)
(* min_rating or more, the returned list has at most top_n items in        *)
(* non-increasing score order, and no catalog item with a rating of        *)
(* min_rating or more that was left out scores higher than a returned one. *)
(***************************************************************************)
ReturnedIds ==
    {recResp.recommendations[i].id : i \in DOMAIN recResp.recommendations}

\* The rows with a rating of min_rating or more.
Eligible ==
    {i \in DOMAIN ScoredRows :
        /\ notna(ScoredRows[i].vote_average)
        /\ ScoredRows[i].vote_average >= recReq.min_rating}

RankedByMinRating ==
    /\ \A i \in DOMAIN recResp.recommendations :
          /\ notna(recResp.recommendations[i].vote_average)
          /\ recResp.recommendations[i].vote_average >= recReq.min_rating
    /\ ReturnedCount = Min(recReq.top_n, Cardinality(Eligible))
    /\ \A i, j \in DOMAIN recResp.recommendations :
          i < j => recResp.recommendations[i].score
                      >= recResp.recommendations[j].score
    /\ \A e \in Eligible :
          \/ ScoredRows[e].id \in ReturnedIds
          \/ \A i \in DOMAIN recResp.recommendations :
                ScoreOf(ScoredRows[e]) <= recResp.recommendations[i].score

C16_AsClaimed ==
    (RecommendCalled /\ recReq.min_rating # NoneNum) =>
        /\ recResp.status = "ok"
        /\ RankedByMinRating

\* The part of C16 that holds: a min_rating above 0 filters, whenever
\* recommend returns.
C16_AboveZero ==
    (RecommendCalled /\ recReq.min_rating > 0 /\ recResp.status = "ok") =>
        RankedByMinRating

\* min_rating 0 and an item without a rating among the items returned.
C16_UnratedReturned ==
    /\ RecommendCalled
    /\ recReq.min_rating = 0
    /\ recResp.status = "ok"
    /\ \E i \in DOMAIN recResp.recommendations :
          recResp.recommendations[i].vote_average = NaN

\* A min_rating above 0 that leaves some rows out, more rows than top_n
\* being left.
C16_Filtered ==
    /\ RecommendCalled
    /\ recReq.min_rating > 0
    /\ recResp.status = "ok"
    /\ Cardinality(Eligible) > recReq.top_n
    /\ Cardinality(Eligible) < Len(catalog)

(***************************************************************************)
(* C17.  Similarity is symmetric: for every pair of catalog items a and b, *)
(* items with empty genres, no decade, no rating or no or zero popularity  *)
(* included, similarity(a, b) = similarity(b, a); so the similarity_score  *)
(* similar_to returns for an item equals the similarity of that item to    *)
(* the reference.                                                          *)
(***************************************************************************)
C17_SimilaritySymmetric ==
    /\ ~RecommendCalled =>
          \A i, j \in DOMAIN catalog :
              calculate_similarity(catalog[i], catalog[j])
                  = calculate_similarity(catalog[j], catalog[i])
    /\ (SimilarCalled /\ recResp.status = "ok") =>
          \A i \in DOMAIN recResp.similar_movies :
              recResp.similar_movies[i].similarity_score
                  = calculate_similarity(MovieOf(recResp.similar_movies[i].id),
                                         MovieOf(recReq.movie_id))

\* A reference with two genres and a returned item with one of them and
\* more of its own, with a similarity above 0; the table also holds an item
\* without rating.
C17_Witness ==
    /\ SimilarCalled
    /\ recResp.status = "ok"
    /\ \E i \in DOMAIN recResp.similar_movies :
          LET a == MovieOf(recReq.movie_id)
              b == recResp.similar_movies[i]
          IN  /\ GenreSet(a) \cap GenreSet(b) # {}
              /\ Cardinality(GenreSet(a)) # Cardinality(GenreSet(b))
              /\ b.similarity_score > 0
    /\ \E i \in DOMAIN catalog : catalog[i].vote_average = NoneNum

(***************************************************************************)
(* C18.  similar_to(item_id, top_n) with top_n >= 1 returns an empty list, *)
(* without error, when item_id is not in the catalog; otherwise it returns *)
(* at most top_n items (all the other items when they are no more than     *)
(* top_n), never the reference item, in non-increasing similarity order,   *)
(* and no item left out is more similar to the reference than a returned   *)
(* one.                                                                    *)
(***************************************************************************)
CatalogIds == {catalog[i].id : i \in DOMAIN catalog}

SimilarIds ==
    {recResp.similar_movies[i].id : i \in DOMAIN recResp.similar_movies}

C18_SimilarTo ==
    (SimilarCalled /\ recReq.top_n >= 1) =>
        /\ recResp.status = "ok"
        /\ recReq.movie_id \notin CatalogIds => recResp.similar_movies = <<>>
        /\ recReq.movie_id \in CatalogIds =>
              /\ Len(recResp.similar_movies)
                    = Min(recReq.top_n, Cardinality(CatalogIds) - 1)
              /\ Cardinality(SimilarIds) = Len(recResp.similar_movies)
              /\ SimilarIds \subseteq CatalogIds \ {recReq.movie_id}
              /\ \A i, j \in DOMAIN recResp.similar_movies :
                    i < j => recResp.similar_movies[i].similarity_score
                                >= recResp.similar_movies[j].similarity_score
              /\ \A id \in CatalogIds \ (SimilarIds \cup {recReq.movie_id}) :
                    \A i \in DOMAIN recResp.similar_movies :
                        calculate_similarity(MovieOf(recReq.movie_id), MovieOf(id))
                            <= recResp.similar_movies[i].similarity_score

\* A call that leaves out an item that comes before the returned one in
\* the table and is less similar to the reference; C18_WitnessUnknown is a
\* call with an unknown id over a table that has rows.
C18_Witness ==
    /\ SimilarCalled
    /\ recReq.top_n >= 1
    /\ recReq.movie_id \in CatalogIds
    /\ Len(recResp.similar_movies) = recReq.top_n
    /\ Cardinality(CatalogIds) - 1 > recReq.top_n
    /\ \E id \in CatalogIds \ (SimilarIds \cup {recReq.movie_id}) :
          /\ id < recResp.similar_movies[1].id
          /\ calculate_similarity(MovieOf(recReq.movie_id), MovieOf(id))
                < recResp.similar_movies[1].similarity_score

C18_WitnessUnknown ==
    /\ SimilarCalled
    /\ recReq.movie_id \notin CatalogIds
    /\ catalog # <<>>
    /\ recResp.similar_movies = <<>>

(***************************************************************************)
(* C19 as claimed.  A catalog item with a missing rating never aborts a    *)
(* ranking: over a catalog in which one or more items have no rating,      *)
(* recommend and similar_to complete without error, the missing rating     *)
(* contributes zero, and every other item is scored and ranked as it is    *)
(* over the catalog without the rating-less items.                         *)
(***************************************************************************)
Unrated(movie) == ~notna(movie.vote_average)

SomeUnrated == \E i \in DOMAIN catalog : Unrated(catalog[i])

\* The frame of the rated rows alone, and the score of the rated row with
\* this id in it.
RatedRows == DataFrame(SelectSeq(get_all_movies(1000), LAMBDA m : ~Unrated(m)))

RatedScoreOf(id) ==
    ScoreOf(SelectSeq(RatedRows, LAMBDA m : m.id = id)[1])

C19_AsClaimed ==
    SomeUnrated =>
        /\ RecommendCalled =>
              /\ recResp.status = "ok"
              /\ \A i \in DOMAIN recResp.recommendations :
                    LET rec == recResp.recommendations[i]
                    IN  IF Unrated(rec)
                        THEN QualityScore(rec) = 0
                        ELSE rec.score = RatedScoreOf(rec.id)
              /\ \A i, j \in DOMAIN recResp.recommendations :
                    i < j => recResp.recommendations[i].score
                                >= recResp.recommendations[j].score
        /\ SimilarCalled =>
              /\ recResp.status = "ok"
              /\ \A i \in DOMAIN recResp.similar_movies :
                    LET other == recResp.similar_movies[i]
                        reference == MovieOf(recReq.movie_id)
                    IN  (Unrated(other) \/ Unrated(reference)) =>
                           other.similarity_score
                               = calculate_similarity(
                                     [reference EXCEPT !.vote_average = 0],
                                     [other EXCEPT !.vote_average = 0])

\* The part of C19 that holds: similar_to completes and counts a missing
\* rating as zero, and recommend does so whenever some row of the table
\* has a rating and some row a popularity.
C19_MixedColumns ==
    SomeUnrated =>
        /\ (/\ RecommendCalled
            /\ ~TruthySeq(recReq.decade)
            /\ \E i \in DOMAIN catalog : ~Unrated(catalog[i])
            /\ \E i \in DOMAIN catalog : catalog[i].popularity # NoneNum) =>
              /\ recResp.status = "ok"
              /\ \A i \in DOMAIN recResp.recommendations :
                    Unrated(recResp.recommendations[i]) =>
                        QualityScore(recResp.recommendations[i]) = 0
        /\ SimilarCalled => recResp.status = "ok"

\* recommend, asked for nothing but top_n, raises over a table whose rows
\* all lack a rating.
C19_AllUnratedRaises ==
    /\ catalog # <<>>
    /\ \A i \in DOMAIN catalog : Unrated(catalog[i])
    /\ NoCriteria
    /\ recReq.min_rating = NoneNum
    /\ recResp.status = "error"

(***************************************************************************)
(* C22.  On every 'continue' result, the next question is the              *)
(* lowest-numbered question after the answered one that either has no      *)
(* condition or whose condition holds for the single character named by    *)
(* the first id of the filtered candidate list: a question without a       *)
(* condition is never skipped, and no other candidate decides.             *)
(***************************************************************************)
\* The character the first id of the returned list names is an anime one.
FirstIsAnime(c) ==
    /\ resp[c].candidate_ids # <<>>
    /\ resp[c].candidate_ids[1] \in RosterIds
    /\ RowOf(resp[c].candidate_ids[1]).type = "anime"

\* The question a number names.  The numbers 1..6 name the six questions; a
\* number below 1 names the question the code's indexing gives it (0 the
\* last one, -1 the fifth, and so on).
QuestionNamed(k) == PyIndex(question_tree, k - 1)

\* Question k may be asked of the list caller c's last call returned: only
\* the alignment question has a condition (type = anime).
EligibleFor(c, k) ==
    QuestionNamed(k).field # "alignment" \/ FirstIsAnime(c)

C22_NextEligibleQuestion ==
    \A c \in AnswerCalls :
        resp[c].status = "continue" =>
            /\ resp[c].question_number \in (req[c].question_number + 1)..6
            /\ EligibleFor(c, resp[c].question_number)
            /\ \A k \in (req[c].question_number + 1)..(resp[c].question_number - 1) :
                  ~EligibleFor(c, k)
            /\ resp[c].question = QuestionNamed(resp[c].question_number).question
            /\ resp[c].options = QuestionNamed(resp[c].question_number).options

\* Question 3 is skipped for a list headed by an actor although the list
\* holds an anime character.
C22_Witness ==
    \E c \in AnswerCalls :
        /\ resp[c].status = "continue"
        /\ req[c].question_number = 2
        /\ resp[c].question_number = 4
        /\ resp[c].candidate_ids[1] \in RosterIds
        /\ \E id \in Range(resp[c].candidate_ids) \cap RosterIds :
              RowOf(id).type = "anime"

\* Question 3 is asked of a list headed by an anime character.
C22_WitnessAsked ==
    \E c \in AnswerCalls :
        /\ resp[c].status = "continue"
        /\ req[c].question_number = 2
        /\ resp[c].question_number = 3
        /\ \E id \in Range(resp[c].candidate_ids) \cap RosterIds :
              RowOf(id).type = "actor"

(***************************************************************************)
(* C23.  When at least one supplied candidate matches the answer, the      *)
(* candidates that remain after filtering are exactly the supplied ids     *)
(* whose character matches under the question's comparison (equality for   *)
(* category and alignment, the nested gender, membership for traits and    *)
(* genres, the inclusive range for popularity): a continuation returns     *)
(* that set and counts it, a guess ranks that set and takes its confidence *)
(* from its size.                                                          *)
(***************************************************************************)
C23_FilterIsExact ==
    \A c \in ValidCalls :
        MatchingIds(c) # {} =>
            /\ resp[c].status \in {"continue", "guess"}
            /\ resp[c].status = "continue" =>
                  /\ Range(resp[c].candidate_ids) = MatchingIds(c)
                  /\ Len(resp[c].candidate_ids) = Cardinality(MatchingIds(c))
                  /\ resp[c].remaining_candidates = Cardinality(MatchingIds(c))
            /\ resp[c].status = "guess" =>
                  /\ GuessedIds(c) \subseteq MatchingIds(c)
                  /\ Len(resp[c].guesses) = Min(3, Cardinality(MatchingIds(c)))
                  /\ \A i \in DOMAIN resp[c].guesses :
                        resp[c].guesses[i].confidence
                            = ConfidenceFor(Cardinality(MatchingIds(c)))

\* A continuation that kept four or more matching candidates and dropped a
\* supplied one that does not match.
C23_Witness ==
    \E c \in ValidCalls :
        /\ resp[c].status = "continue"
        /\ Cardinality(MatchingIds(c)) >= 4
        /\ KnownSupplied(c) \ MatchingIds(c) # {}
        /\ Range(resp[c].candidate_ids) = MatchingIds(c)

\* A range answer that kept some supplied candidates and dropped others.
C23_WitnessRange ==
    \E c \in ValidCalls :
        /\ req[c].question_number = 6
        /\ MatchingIds(c) # {}
        /\ KnownSupplied(c) \ MatchingIds(c) # {}
        /\ GuessedIds(c) \subseteq MatchingIds(c)

\* A traits answer matched by a character whose first trait is another one.
C23_WitnessContains ==
    \E c \in ValidCalls :
        /\ req[c].question_number = 4
        /\ \E id \in MatchingIds(c) : RowOf(id).traits[1] # req[c].answer
        /\ KnownSupplied(c) \ MatchingIds(c) # {}

(***************************************************************************)
(* C26.  Candidate sets only shrink.  The candidate_ids of a 'continue'    *)
(* result and the ids of the guesses of a 'guess' result are among the     *)
(* candidate_ids supplied to the call, and a returned list is no longer    *)
(* than the supplied one; over a game that resupplies what it was          *)
(* returned, every step leaves the held candidates within those held       *)
(* before, so no id outside the set the game started with ever appears.    *)
(***************************************************************************)
\* One call: what comes back is within what was supplied.
ReturnedWithinSupplied(c) ==
    /\ resp[c].status = "continue" =>
          /\ Range(resp[c].candidate_ids) \subseteq Range(req[c].candidate_ids)
          /\ Len(resp[c].candidate_ids) <= Len(req[c].candidate_ids)
          /\ resp[c].remaining_candidates <= Len(req[c].candidate_ids)
    /\ resp[c].status = "guess" =>
          GuessedIds(c) \subseteq Range(req[c].candidate_ids)

\* One step of a game that goes on: the held candidates do not grow.
HeldShrinks(c) ==
    (game[c].status = "awaiting" /\ game'[c].status = "awaiting") =>
        /\ Range(game'[c].candidate_ids) \subseteq Range(game[c].candidate_ids)
        /\ Len(game'[c].candidate_ids) <= Len(game[c].candidate_ids)

C26_CandidatesOnlyShrink ==
    /\ [][\A c \in Callers : HeldShrinks(c)]_vars
    /\ [](\A c \in AnswerCalls : ReturnedWithinSupplied(c))
    /\ [](\A c \in Callers :
            game[c].status \in {"awaiting", "terminal"} =>
                /\ Range(game[c].candidate_ids) \subseteq RosterIds
                /\ GuessedIds(c) \subseteq RosterIds)

\* A game in its third call or later whose held list has lost candidates
\* since the start.
C26_Witness ==
    \E c \in Callers :
        /\ game[c].status = "awaiting"
        /\ game[c].asked >= 2
        /\ req[c].op = "answer"
        /\ Len(resp[c].candidate_ids) < Len(req[c].candidate_ids)
        /\ Len(req[c].candidate_ids) < Len(roster)

\* A call that supplied an unknown id and was answered with guesses.
C26_WitnessUnknown ==
    \E c \in AnswerCalls :
        /\ UnknownId \in Range(req[c].candidate_ids)
        /\ resp[c].status = "guess"
        /\ GuessedIds(c) # {}

(***************************************************************************)
(* C27.  Every 'continue' result of an answer_question call with           *)
(* question_number in 1..5 carries a question_number strictly greater than *)
(* the one answered and at most 6, and a candidate_ids list of at least 4  *)
(* ids; and with the six-question tree the branch 'no eligible question    *)
(* remains' is never taken: a guess comes only from at most 3 remaining    *)
(* candidates or from question 6.                                          *)
(***************************************************************************)
\* The scan of lines 154-164 ran off the tree for caller c's last call.
ScanRanOff(c) ==
    NextQuestionIdx(req[c].question_number,
                    filter_candidates(req[c].candidate_ids,
                                      question_tree[req[c].question_number],
                                      req[c].answer)) >= TreeLen

C27_ContinueAdvances ==
    \A c \in ValidCalls :
        /\ (resp[c].status = "continue" /\ req[c].question_number \in 1..5) =>
              /\ resp[c].question_number > req[c].question_number
              /\ resp[c].question_number <= 6
              /\ Len(resp[c].candidate_ids) >= 4
        /\ resp[c].status = "guess" =>
              \/ RemainingCount(c) <= 3
              \/ req[c].question_number >= 6
        /\ req[c].question_number \in 1..5 => ~ScanRanOff(c)
        /\ resp[c].status \in {"continue", "guess"}

\* A continuation from question 5 to question 6, and one with exactly four
\* candidates.
C27_Witness ==
    \E c \in ValidCalls :
        /\ resp[c].status = "continue"
        /\ req[c].question_number = 5
        /\ resp[c].question_number = 6
        /\ Len(resp[c].candidate_ids) = 4

(***************************************************************************)
(* C29 as claimed.  In every playthrough that starts at question 1 and     *)
(* resupplies what each answer returns, the total_questions reported with  *)
(* the guess equals the number of answer_question calls of the game, also  *)
(* when a conditional question was skipped on the way.                     *)
(***************************************************************************)
C29_AsClaimed ==
    \A c \in Callers :
        (game[c].status = "terminal" /\ req[c].op = "answer"
            /\ resp[c].status = "guess") =>
                resp[c].total_questions = game[c].asked

\* What the code reports: the number of the question answered last.
C29_ReportsLastNumber ==
    \A c \in Callers :
        (game[c].status = "terminal" /\ req[c].op = "answer"
            /\ resp[c].status = "guess") =>
                /\ resp[c].total_questions = req[c].question_number
                /\ resp[c].total_questions >= game[c].asked

\* A game that skipped the alignment question and ended one call short of
\* the total it reports.
C29_Skipped ==
    \E c \in Callers :
        /\ game[c].status = "terminal"
        /\ req[c].op = "answer"
        /\ resp[c].status = "guess"
        /\ resp[c].total_questions = game[c].asked + 1

\* A game that skipped no question reports the number of its calls.
C29_NoSkip ==
    \E c \in Callers :
        /\ game[c].status = "terminal"
        /\ req[c].op = "answer"
        /\ game[c].asked >= 3
        /\ resp[c].total_questions = game[c].asked

(***************************************************************************)
(* C30 as claimed.  The four popularity buckets of question 6, (95,100),   *)
(* (90,94), (85,89) and (0,84), bounds included, partition the score       *)
(* range: every popularity_score from 0 to 100, whole or fractional, lies  *)
(* in exactly one bucket, so for every character of the table some answer  *)
(* to question 6 matches it.                                               *)
(***************************************************************************)
\* The scores from 0 to 100 in steps of a tenth.
Scores == 0..(100 * 10)

\* The answers to question 6 under which the loop of _filter_candidates
\* matches a character of this score.
BucketsOf(score) ==
    {l \in Range(question_tree[6].options) :
        Match([popularity_score |-> score], question_tree[6], l)}

C30_AsClaimed ==
    /\ \A score \in Scores : Cardinality(BucketsOf(score)) = 1
    /\ \A id \in RosterIds :
          \E l \in Range(question_tree[6].options) :
              Match(RowOf(id), question_tree[6], l)

\* What holds: no score lies in two buckets, and every whole score lies in
\* exactly one.
C30_WholeScoresPartitioned ==
    /\ \A score \in Scores : Cardinality(BucketsOf(score)) <= 1
    /\ \A n \in 0..100 : Cardinality(BucketsOf(n * 10)) = 1

\* Question 6 answered for a character whose score lies between two
\* buckets: no answer matches, and the guess comes from the dead-end guard.
C30_BetweenBuckets ==
    \E c \in ValidCalls :
        /\ req[c].question_number = 6
        /\ req[c].answer \in Range(question_tree[6].options)
        /\ \E id \in KnownSupplied(c) :
              /\ BucketsOf(RowOf(id).popularity_score) = {}
              /\ id \in GuessedIds(c)
        /\ MatchingIds(c) = {}

(***************************************************************************)
(* C25.  In a playthrough started from the full roster, if every answer    *)
(* given matches a fixed target character under the rule of the question   *)
(* asked, the target's id is in every candidate_ids list a 'continue'      *)
(* returns, and whenever the game ends with at most 3 remaining candidates *)
(* the target is among the guesses.                                        *)
(***************************************************************************)
\* Caller c's game is a playthrough: its last call belongs to the game.
Playthrough(c) ==
    /\ game[c].status \in {"awaiting", "terminal"}
    /\ req[c].op = "answer"

C25_TargetIsKept ==
    \A c \in Callers :
        Playthrough(c) =>
            \A target \in game[c].targets :
                /\ resp[c].status = "continue" =>
                      target \in Range(resp[c].candidate_ids)
                /\ (resp[c].status = "guess" /\ RemainingCount(c) <= 3) =>
                      target \in GuessedIds(c)

\* A game of two or more answers, all true of a target, that ended with
\* three candidates, the target the least popular of them.
C25_Witness ==
    \E c \in Callers :
        /\ Playthrough(c)
        /\ game[c].asked >= 2
        /\ resp[c].status = "guess"
        /\ RemainingCount(c) = 3
        /\ \E target \in game[c].targets :
              /\ target \in GuessedIds(c)
              /\ target = resp[c].guesses[3].id

\* A game still going on after three answers, all true of a target.
C25_WitnessContinue ==
    \E c \in Callers :
        /\ Playthrough(c)
        /\ game[c].asked >= 3
        /\ resp[c].status = "continue"
        /\ game[c].targets # {}
        /\ Len(resp[c].candidate_ids) < Len(roster)

(***************************************************************************)
(* C28 as claimed.  An answer_question call whose question_number is       *)
(* outside 1..6 (0, negative, or above 6) fails with an error: it never    *)
(* returns a continuation or a guess.                                      *)
(***************************************************************************)
\* The supplied candidates that match caller c's answer under question k.
MatchingIdsAs(c, k) ==
    {id \in KnownSupplied(c) : Matches(id, k, req[c].answer)}

\* The callers whose last answer_question call named no question of the tree.
OutsideCalls == {c \in AnswerCalls : req[c].question_number \notin 1..6}

C28_AsClaimed ==
    \A c \in OutsideCalls : resp[c].status = "error"

\* What holds: the call fails exactly when the number is above 6 or below
\* -5; the numbers -5..0 are served as the questions Python's negative
\* indexing gives them.
C28_FailsBeyondTheTree ==
    \A c \in OutsideCalls :
        resp[c].status = "error" <=>
            (req[c].question_number > 6 \/ req[c].question_number < 0 - 5)

\* question_number 0 is filtered as question 6 and answered with a guess
\* that reports 0 questions.
C28_ZeroGuesses ==
    \E c \in OutsideCalls :
        /\ req[c].question_number = 0
        /\ req[c].answer = "Extremely famous (everyone knows them)"
        /\ MatchingIdsAs(c, 6) # KnownSupplied(c)
        /\ resp[c].status = "guess"
        /\ resp[c].total_questions = 0
        /\ resp[c].guesses # <<>>
        /\ GuessedIds(c) = MatchingIdsAs(c, 6)

\* question_number 0 is continued with question 1.
C28_ZeroContinues ==
    \E c \in OutsideCalls :
        /\ req[c].question_number = 0
        /\ resp[c].status = "continue"
        /\ resp[c].question_number = 1

\* question_number -1 is continued with a question numbered 0.
C28_NegativeContinues ==
    \E c \in OutsideCalls :
        /\ req[c].question_number = -1
        /\ resp[c].status = "continue"
        /\ resp[c].question_number = 0

\* question_number 7 and question_number -6 fail.
C28_Fails ==
    \E c \in OutsideCalls :
        /\ req[c].question_number \in {7, 0 - 6}
        /\ resp[c].status = "error"

(***************************************************************************)
(* C21 as claimed.  A request whose top_n is below 1 is rejected before    *)
(* any scoring or ranking runs, in every operation that takes top_n:       *)
(* recommend, similar_to and trending.                                     *)
(***************************************************************************)
\* The last call was one of the three operations, with a top_n below 1.
TopNBelowOne ==
    /\ recReq.op \in {"recommend", "similar", "trending"}
    /\ recReq.top_n < 1

C21_AsClaimed ==
    TopNBelowOne => recResp.status = "rejected"

\* What holds: recommend turns away a top_n out of the bounds of its schema
\* before the engine runs; the other two routes never do, and only a
\* negative top_n of trending fails, in the query.
C21_RecommendRejects ==
    /\ (recReq.op = "recommend" /\ (recReq.top_n < 1 \/ recReq.top_n > 20)) =>
          recResp.status = "rejected"
    /\ recReq.op \in {"similar", "trending"} => recResp.status # "rejected"
    /\ (recReq.op = "trending" /\ recReq.top_n < 0) => recResp.status = "error"

\* similar_to with top_n -1 scores every other row and returns all of them
\* but the least similar one.
C21_SimilarNegative ==
    /\ recReq.op = "similar"
    /\ recReq.top_n = -1
    /\ recResp.status = "ok"
    /\ Len(recResp.similar_movies) = Cardinality(CatalogIds) - 2
    /\ Len(recResp.similar_movies) >= 1

\* similar_to and trending with top_n 0 answer with an empty list over a
\* table that has rows to return.
C21_SimilarZero ==
    /\ recReq.op = "similar"
    /\ recReq.top_n = 0
    /\ recReq.movie_id \in CatalogIds
    /\ Cardinality(CatalogIds) >= 2
    /\ recResp.status = "ok"
    /\ recResp.similar_movies = <<>>

C21_TrendingZero ==
    /\ recReq.op = "trending"
    /\ recReq.top_n = 0
    /\ \E i \in DOMAIN catalog :
          catalog[i].vote_count # NoneNum /\ catalog[i].vote_count >= 100
    /\ recResp.status = "ok"
    /\ recResp.trending = <<>>

\* recommend with top_n 0 is turned away.
C21_RecommendZero ==
    /\ recReq.op = "recommend"
    /\ recReq.top_n = 0
    /\ catalog # <<>>
    /\ recResp.status = "rejected"

\* trending with a top_n within bounds returns the most popular voted rows.
C21_TrendingServed ==
    /\ recReq.op = "trending"
    /\ recReq.top_n = 2
    /\ recResp.status = "ok"
    /\ Len(recResp.trending) = 2
    /\ recResp.trending[1].popularity > recResp.trending[2].popularity

(***************************************************************************)
(* C24 as claimed.  A recommendation request with content_type 'book' is   *)
(* served from the books table with the scoring of the movies: every item  *)
(* returned is a Book record, and total_candidates counts the books, never *)
(* the movies.                                                             *)
(***************************************************************************)
\* The last call was a recommend call for books that passed the schema.
BooksCalled == RecommendCalled /\ recReq.content_type = "book"

\* The item is a record of the books table.
IsBookRecord(item) ==
    /\ "categories" \in DOMAIN item
    /\ \E i \in DOMAIN books : books[i].id = item.id

C24_AsClaimed ==
    BooksCalled =>
        /\ recResp.status = "ok"
        /\ \A i \in DOMAIN recResp.recommendations :
              IsBookRecord(recResp.recommendations[i])
        /\ recResp.total_candidates = Len(books)

\* What the route does: a request for books is answered as the same request
\* for movies is, from the movies table.
C24_BooksAnsweredAsMovies ==
    BooksCalled =>
        /\ recResp = recommend_movies(recReq.genres, recReq.decade,
                                      recReq.mood, recReq.setting,
                                      recReq.min_rating, recReq.top_n)
        /\ recResp.status = "ok" =>
              /\ \A i \in DOMAIN recResp.recommendations :
                    /\ "vote_average" \in DOMAIN recResp.recommendations[i]
                    /\ "categories" \notin DOMAIN recResp.recommendations[i]
                    /\ recResp.recommendations[i].id \in CatalogIds
              /\ recResp.total_candidates = Len(catalog)

\* A request for books answered with movies, over tables of different size;
\* one of the movies has an id no book has.
C24_MoviesReturned ==
    /\ BooksCalled
    /\ recResp.status = "ok"
    /\ recResp.total_candidates = Len(catalog)
    /\ Len(catalog) # Len(books)
    /\ \E i \in DOMAIN recResp.recommendations :
          \A j \in DOMAIN books : books[j].id # recResp.recommendations[i].id

====
